---- MODULE Spec2Model ----
(***************************************************************************)
(* Iterative reasoning and graph-exploration engine of graph-rag-agent:    *)
(* evidence tracker, chained exploration, tiered cache, dual-path searcher *)
(* and thinking engine, each modelled as a state machine over its own      *)
(* variables.  Scores are kept as integers in tenths (0.7 is 7), strings   *)
(* as sequences of one-character strings, time as an integer clock.        *)
(***************************************************************************)
EXTENDS Integers, Sequences, FiniteSets, TLC

VARIABLES
    now,                  \* time.time(), in clock units
    \* ---- EvidenceTracker ----
    enable_deduplication, \* config.evidence.evidence_deduplication
    enable_validation,    \* config.evidence.enable_evidence_validation
    evidence_chains,      \* chain_id -> [items, steps]
    current_chain_id,     \* chain_id or NoChain
    ev_last,              \* the last EvidenceTracker call: its key and what it returned
    ev_probe,             \* chain ids in which add_evidence has stored ProbeId so far
    \* ---- ChainedExploration ----
    graph,                \* what graph_query_func returns: node id -> rows, best rank first
    exploration_paths,    \* path_id -> [query, nodes, status]
    current_path_id,      \* path_id or NoPath
    visited_nodes,        \* set of node ids
    ex_last,              \* the last ChainedExploration call: [op, path_id, status, new_nodes_count]
    ex_calls,             \* path_id -> explore_next_step calls since the path started
    ex_completed,         \* path ids for which one of these calls returned completed
    \* ---- CacheManager ----
    max_size,             \* MemoryCacheBackend.max_size
    use_memory,           \* CacheManager.use_memory
    use_disk,             \* CacheManager.use_disk
    mem,                  \* MemoryCacheBackend._cache and _access_times, in insertion order
    disk,                 \* DiskCacheBackend: key -> cache file
    ca_last,              \* the last CacheManager call: [op, key, value, ok, expires, follows]
    ca_expires,           \* when the most recent set of ProbeKey expires, or Never
    \* ---- DualPathSearcher ----
    enable_parallel,      \* DualPathSearcher.enable_parallel
    search_history,       \* the query of every entry of search_history, oldest first
    ds_pc,                \* "idle", or "joining" inside _search_parallel
    ds_type,              \* search_type of the last search call
    ds_fn,                \* what kb_retrieve_func and kg_retrieve_func do for its query
    ds_pending,           \* futures that have not completed
    ds_results,           \* the results dict of _search_parallel
    ds_order,             \* the order in which the futures completed
    ds_via,               \* the branch of search that produced ds_out
    ds_out,               \* what the last search call returned
    \* ---- ThinkingEngine ----
    max_depth,            \* ThinkingEngine.max_depth
    sessions,             \* session_id -> steps, each the kind of the model's response
    session_status,       \* the status field of every stored session
    current_session_id,   \* session_id or NoSession
    msg_history,          \* number of messages in msg_history
    th_last,              \* status returned by the last generate_next_query, or "none"
    th_calls,             \* generate_next_query calls since the current session began
    th_ready,             \* one of these calls returned answer_ready
    th_plain,             \* in all of them the model answered without signalling readiness
    \* ---- DeepResearchTool ----
    rs_pc,                \* where search is: "idle" between calls, else a point of the loop
    iteration,            \* the loop counter of _execute_deep_research
    rs_queue,             \* sub-queries of this iteration still to execute (a local)
    rs_results,           \* results of the sub-query still to add as evidence (a local)
    all_retrieved_info,   \* number of entries of all_retrieved_info
    rs_answer,            \* what the last search call returned
    dr_pc,                \* where the running DeeperResearchTool.search call is
    dr_overall,           \* overall_complexity of its query, in tenths
    ce_entity_count,      \* entities extract_entities finds in the query
    ce_keyword_count,     \* keywords extract_keywords finds in the query
    ce_matched,           \* high-complexity keywords occurring in the query
    ce_score,             \* semantic complexity of the query, in thousandths
    ce_prev,              \* matched count and score of the query estimated before
    av_enabled,           \* AnswerValidator.enable_validation
    av_responses,         \* what the three chains answered in the last validate_answer
    av_result,            \* the ValidationResult of the last validate_answer
    av_history,           \* len(validation_history)
    \* ---- DualPathSearcher.batch_search ----
    bs_pc,                \* "idle", "joining" in as_completed, "timed_out" in the executor's exit
    bs_workers,           \* the worker of every submitted query
    bs_results,           \* the results dict of batch_search
    bs_via,               \* the branch of batch_search that produced bs_out
    bs_out,               \* what the last batch_search call returned
    \* ---- a second thread inside CacheManager.get ----
    rd_pc,                \* "idle", or "loading" between its disk read and its memory write
    rd_key,               \* the key of its get
    rd_value              \* the value it read from the disk tier

evVars == <<enable_deduplication, enable_validation, evidence_chains,
            current_chain_id, ev_last, ev_probe>>

exVars == <<graph, exploration_paths, current_path_id, visited_nodes,
            ex_last, ex_calls, ex_completed>>

caVars == <<max_size, use_memory, use_disk, mem, disk, ca_last, ca_expires>>

dsVars == <<enable_parallel, search_history, ds_pc, ds_type, ds_fn, ds_pending,
            ds_results, ds_order, ds_via, ds_out>>

thVars == <<max_depth, sessions, session_status, current_session_id, msg_history,
            th_last, th_calls, th_ready, th_plain>>

rsVars == <<rs_pc, iteration, rs_queue, rs_results, all_retrieved_info, rs_answer>>

drVars == <<dr_pc, dr_overall>>

ceVars == <<ce_entity_count, ce_keyword_count, ce_matched, ce_score, ce_prev>>

\* the variables of the stateless components
avVars == <<av_enabled, av_responses, av_result, av_history>>

bsVars == <<bs_pc, bs_workers, bs_results, bs_via, bs_out>>

rdVars == <<rd_pc, rd_key, rd_value>>

fnVars == <<ceVars, avVars, bsVars, rdVars>>

vars == <<now, evVars, exVars, caVars, dsVars, thVars, rsVars, drVars, fnVars>>

evOthers == <<exVars, caVars, dsVars, thVars, rsVars, drVars, fnVars>>

exOthers == <<evVars, caVars, dsVars, thVars, rsVars, drVars, fnVars>>

caOthers == <<evVars, exVars, dsVars, thVars, rsVars, drVars, fnVars>>

dsOthers == <<now, evVars, exVars, caVars, thVars, rsVars, drVars, fnVars>>

thOthers == <<evVars, exVars, caVars, dsVars, rsVars, drVars, fnVars>>

(***************************************************************************)
(* Bounds                                                                  *)
(***************************************************************************)
MaxClock == 2
MaxEvidenceItems == 2
MaxReasoningSteps == 1
MaxPathClock == 1
MaxSteps == 2
ExplorationWidth == 2
MemMaxSize == 1
MaxResults == 2
MaxThinkingDepth == 2
MaxSessionClock == 1
MaxIterations == 2

MaxEntityCount == 11

MaxMatched == 6

MaxValidations == 2

MaxBatch == 2

(***************************************************************************)
(* Generic helpers                                                         *)
(***************************************************************************)
Min(a, b) == IF a <= b THEN a ELSE b

Range(s) == {s[i] : i \in 1..Len(s)}

RemoveAt(s, i) == SubSeq(s, 1, i - 1) \o SubSeq(s, i + 1, Len(s))

Tick(limit) ==
    /\ now < limit
    /\ now' = now + 1

(***************************************************************************)
(* EvidenceTracker (reasoning/core/evidence_tracker.py)                    *)
(***************************************************************************)
NoChain == -1
NoId == <<>>
NoStep == 0

PrefixLen == 3
MinContentLen == 2
RelevanceThreshold == 7
ConfidenceThreshold == 5

\* the inputs add_evidence is called with, <<source_id, content, confidence>>:
\* two contents that agree on their first PrefixLen characters, one that
\* differs, the first content from another source, a content carrying an
\* uncertain marker and one with a failing confidence
ContentA == <<"x", "y", "x", "x">>
ContentA2 == <<"x", "y", "x", "y">>
ContentB == <<" ", "y", "y">>
ContentMarked == <<"x", "y", "x", "!">>
HighConfidence == 8
LowConfidence == 4
EvidenceInputs ==
    {<<<<"s">>, ContentA, HighConfidence>>, <<<<"s">>, ContentA2, HighConfidence>>,
     <<<<"s">>, ContentB, HighConfidence>>, <<<<"t">>, ContentA, HighConfidence>>,
     <<<<"s">>, ContentMarked, HighConfidence>>, <<<<"s">>, ContentA, LowConfidence>>}
RelevanceScores == {5, 7, 9}
StepArgs == {0, 1}

\* content[:50]
Prefix(content) == SubSeq(content, 1, Min(Len(content), PrefixLen))

EvidenceIdWholeContent(source_id, content) == source_id \o <<":">> \o content

\* md5(f"{source_id}:{content[:50]}").hexdigest()[:10]; the digest is taken
\* to be injective on the formatted string
EvidenceId(source_id, content) == source_id \o <<":">> \o Prefix(content)

RECURSIVE LStrip(_)
LStrip(s) == IF s # <<>> /\ s[1] = " " THEN LStrip(Tail(s)) ELSE s

RECURSIVE RStrip(_)
RStrip(s) == IF s # <<>> /\ s[Len(s)] = " " THEN RStrip(SubSeq(s, 1, Len(s) - 1)) ELSE s

Strip(s) == RStrip(LStrip(s))

\* "!" stands for one of the markers "错误", "不确定", "可能错误"
HasUncertainMarker(content) == \E i \in 1..Len(content) : content[i] = "!"

ValidateEvidence(content, confidence_score) ==
    /\ content # <<>>
    /\ Len(Strip(content)) >= MinContentLen
    /\ confidence_score >= ConfidenceThreshold
    /\ ~HasUncertainMarker(content)

ItemIds(chain) == {chain.items[i].evidence_id : i \in 1..Len(chain.items)}

ItemIndex(chain, id) ==
    IF id \in ItemIds(chain)
    THEN CHOOSE i \in 1..Len(chain.items) : chain.items[i].evidence_id = id
    ELSE 0

\* the loop of _remove_least_relevant_evidence: the first item, in insertion
\* order, whose relevance is strictly below every earlier one and not above
\* any later one
OldestIndex(items) == 1

LeastRelevantIndex(items) ==
    CHOOSE i \in 1..Len(items) :
        /\ \A j \in 1..Len(items) : items[i].relevance_score <= items[j].relevance_score
        /\ \A j \in 1..(i - 1) : items[j].relevance_score > items[i].relevance_score

\* list.remove(x): drops the first occurrence
RECURSIVE ListRemove(_, _)
ListRemove(s, x) ==
    IF s = <<>> THEN <<>>
    ELSE IF s[1] = x THEN Tail(s)
    ELSE <<s[1]>> \o ListRemove(Tail(s), x)

\* the eviction without the loop over reasoning_steps
RemoveLeastRelevantEvidenceKeepLinks(chain) ==
    IF chain.items = <<>> THEN chain
    ELSE [chain EXCEPT !.items = RemoveAt(chain.items, LeastRelevantIndex(chain.items))]

RemoveLeastRelevantEvidence(chain) ==
    IF chain.items = <<>> THEN chain
    ELSE LET i == LeastRelevantIndex(chain.items)
             id == chain.items[i].evidence_id
         IN [items |-> RemoveAt(chain.items, i),
             steps |-> [k \in 1..Len(chain.steps) |-> ListRemove(chain.steps[k], id)]]

AssociateEvidenceToStep(chain, step_id, id) ==
    IF step_id \in 1..Len(chain.steps) /\ id \notin Range(chain.steps[step_id])
    THEN [chain EXCEPT !.steps[step_id] = Append(@, id)]
    ELSE chain

\* chain.evidence_items[evidence_id] = evidence: a dict keeps the position of
\* a key that is already present
StoreEvidence(chain, ev) ==
    LET i == ItemIndex(chain, ev.evidence_id)
    IN IF i = 0 THEN [chain EXCEPT !.items = Append(@, ev)]
       ELSE [chain EXCEPT !.items[i] = ev]

NeedsEvictionAboveLimit(chain) == Len(chain.items) > MaxEvidenceItems

NeedsEviction(chain) == Len(chain.items) >= MaxEvidenceItems

EvCall(op, source_id, prefix, ret, duplicate) ==
    [op |-> op, source_id |-> source_id, prefix |-> prefix,
     ret |-> ret, duplicate |-> duplicate]

\* the key whose history ev_probe records
ProbeSource == <<"s">>
ProbeContent == ContentA
ProbeId == EvidenceId(ProbeSource, ProbeContent)

EvInit ==
    /\ enable_deduplication \in BOOLEAN
    /\ enable_validation = TRUE
    /\ evidence_chains = <<>>
    /\ current_chain_id = NoChain
    /\ ev_last = EvCall("none", <<>>, <<>>, NoId, FALSE)
    /\ ev_probe = {}

CreateEvidenceChain ==
    /\ evidence_chains' = (now :> [items |-> <<>>, steps |-> <<>>]) @@ evidence_chains
    /\ current_chain_id' = now
    /\ ev_probe' = ev_probe \ {now}
    /\ ev_last' = EvCall("create_evidence_chain", <<>>, <<>>, NoId, FALSE)
    /\ UNCHANGED <<now, enable_deduplication, enable_validation>>

AddEvidence(source_id, content, step_id, rel, conf) ==
    LET id == EvidenceId(source_id, content)
        call(ret, duplicate) == EvCall("add_evidence", source_id, Prefix(content), ret, duplicate)
    IN
    /\ UNCHANGED <<now, enable_deduplication, enable_validation, current_chain_id>>
    /\ IF current_chain_id = NoChain
       THEN /\ ev_last' = call(NoId, FALSE)
            /\ UNCHANGED <<evidence_chains, ev_probe>>
       ELSE LET chain == evidence_chains[current_chain_id]
                evicted == IF NeedsEviction(chain)
                           THEN RemoveLeastRelevantEvidence(chain) ELSE chain
                evidence == [evidence_id |-> id, source_id |-> source_id,
                             content |-> content, relevance_score |-> rel,
                             confidence_score |-> conf]
                stored == StoreEvidence(evicted, evidence)
                linked == IF step_id # NoStep
                          THEN AssociateEvidenceToStep(stored, step_id, id)
                          ELSE stored
            IN
            IF enable_deduplication /\ id \in ItemIds(chain)
            THEN /\ ev_last' = call(id, TRUE)
                 /\ UNCHANGED <<evidence_chains, ev_probe>>
            ELSE IF rel < RelevanceThreshold
            THEN /\ ev_last' = call(NoId, FALSE)
                 /\ UNCHANGED <<evidence_chains, ev_probe>>
            ELSE IF enable_validation /\ ~ValidateEvidence(content, conf)
            THEN /\ ev_last' = call(NoId, FALSE)
                 /\ evidence_chains' = [evidence_chains EXCEPT ![current_chain_id] = evicted]
                 /\ UNCHANGED ev_probe
            ELSE /\ ev_last' = call(id, FALSE)
                 /\ evidence_chains' = [evidence_chains EXCEPT ![current_chain_id] = linked]
                 /\ ev_probe' = IF id = ProbeId THEN ev_probe \cup {current_chain_id}
                                ELSE ev_probe

\* f"step_{len(chain.reasoning_steps) + 1}"
StepId(n) == <<"step", ToString(n)>>

\* add_reasoning_step without the test of current_chain_id
AddReasoningStepUnguarded ==
    /\ UNCHANGED <<now, enable_deduplication, enable_validation, current_chain_id, ev_probe>>
    /\ IF current_chain_id = NoChain
       THEN /\ ev_last' = EvCall("add_reasoning_step", <<>>, <<>>, StepId(1), FALSE)
            /\ UNCHANGED evidence_chains
       ELSE /\ Len(evidence_chains[current_chain_id].steps) < MaxReasoningSteps
            /\ evidence_chains' = [evidence_chains EXCEPT ![current_chain_id].steps = Append(@, <<>>)]
            /\ ev_last' = EvCall("add_reasoning_step", <<>>, <<>>,
                                 StepId(Len(evidence_chains[current_chain_id].steps) + 1),
                                 FALSE)

AddReasoningStep ==
    /\ UNCHANGED <<now, enable_deduplication, enable_validation, current_chain_id, ev_probe>>
    /\ IF current_chain_id = NoChain
       THEN /\ ev_last' = EvCall("add_reasoning_step", <<>>, <<>>, NoId, FALSE)
            /\ UNCHANGED evidence_chains
       ELSE /\ Len(evidence_chains[current_chain_id].steps) < MaxReasoningSteps
            /\ evidence_chains' = [evidence_chains EXCEPT ![current_chain_id].steps = Append(@, <<>>)]
            /\ ev_last' = EvCall("add_reasoning_step", <<>>, <<>>,
                                 StepId(Len(evidence_chains[current_chain_id].steps) + 1),
                                 FALSE)

ChainArgs == {NoChain} \cup DOMAIN evidence_chains

\* clear_chain; NoChain stands for the default argument None
ClearChain(chain_arg) ==
    LET chain_id == IF chain_arg = NoChain THEN current_chain_id ELSE chain_arg
    IN /\ ev_last' = EvCall("clear_chain", <<>>, <<>>, NoId, FALSE)
       /\ UNCHANGED <<now, enable_deduplication, enable_validation>>
       /\ IF chain_id # NoChain /\ chain_id \in DOMAIN evidence_chains
          THEN /\ evidence_chains' = [c \in DOMAIN evidence_chains \ {chain_id} |->
                                         evidence_chains[c]]
               /\ current_chain_id' = IF chain_id = current_chain_id
                                      THEN NoChain ELSE current_chain_id
               /\ ev_probe' = ev_probe \ {chain_id}
          ELSE UNCHANGED <<evidence_chains, current_chain_id, ev_probe>>

\* EvidenceTracker.close
EvClose ==
    /\ evidence_chains' = <<>>
    /\ current_chain_id' = NoChain
    /\ ev_probe' = {}
    /\ ev_last' = EvCall("close", <<>>, <<>>, NoId, FALSE)
    /\ UNCHANGED <<now, enable_deduplication, enable_validation>>

EvNext ==
    \/ CreateEvidenceChain
    \/ \E in \in EvidenceInputs, st \in StepArgs, r \in RelevanceScores :
          AddEvidence(in[1], in[2], st, r, in[3])
    \/ AddReasoningStep
    \/ \E chain_arg \in ChainArgs : ClearChain(chain_arg)
    \/ EvClose

EvQuiet ==
    /\ enable_deduplication = TRUE
    /\ enable_validation = TRUE
    /\ evidence_chains = <<>>
    /\ current_chain_id = NoChain
    /\ ev_last = EvCall("none", <<>>, <<>>, NoId, FALSE)
    /\ ev_probe = {}

(***************************************************************************)
(* ChainedExploration (reasoning/search/exploration.py).  Scores are in    *)
(* thousandths: a seed has 1000, the threshold 0.6 is 600.                 *)
(***************************************************************************)
NoPath == -1
NoNode == ""

ExplorationThreshold == 600
DecayNumerator == 9
DecayDenominator == 10
SeedScore == 1000

RECURSIVE Pow(_, _)
Pow(b, e) == IF e = 0 THEN 1 ELSE b * Pow(b, e - 1)

Row(id, relevance, description) ==
    [id |-> id, relevance |-> relevance, description |-> description]

\* a graph with a cycle (a, b, c), a neighbour two nodes share (c), a row
\* below the threshold (d) and a dead end (d)
GraphCyclic ==
    [n \in {"a", "b", "c", "d"} |->
        CASE n = "a" -> <<Row("b", 900, {"q"}), Row("c", 800, {})>>
          [] n = "b" -> <<Row("c", 900, {}), Row("a", 800, {})>>
          [] n = "c" -> <<Row("b", 700, {"q"}), Row("d", 300, {})>>
          [] OTHER -> <<>>]

\* a chain a, b, c, d without a cycle
GraphChain ==
    [n \in {"a", "b", "c", "d"} |->
        CASE n = "a" -> <<Row("b", 900, {})>>
          [] n = "b" -> <<Row("c", 900, {"q"})>>
          [] n = "c" -> <<Row("d", 900, {})>>
          [] OTHER -> <<>>]

Graphs == {GraphCyclic, GraphChain}

\* the inputs start_exploration and backtrack are called with
SeedLists == {<<>>, <<"a">>, <<"b">>, <<"a", "a">>, <<"a", "b">>}
Queries == {<<>>, <<"q">>}
TargetDepths == {0, 1}
\* the sets of node ids for which graph_query_func raises during one step
FailingQueries == {{}, {"a"}}

Node(node_id, relevance_score, depth, parent_id, description) ==
    [node_id |-> node_id, relevance_score |-> relevance_score, depth |-> depth,
     parent_id |-> parent_id, content |-> description]

\* max((node.depth for node in path.nodes), default=0)
RECURSIVE MaxDepth(_)
MaxDepth(nodes) ==
    IF nodes = <<>> THEN 0
    ELSE LET rest == MaxDepth(Tail(nodes))
         IN IF nodes[1].depth > rest THEN nodes[1].depth ELSE rest

AtDepth(nodes, d) == SelectSeq(nodes, LAMBDA n : n.depth = d)

\* the rows graph_query_func returns for an entity (LIMIT exploration_width * 2)
QueryNeighbors(node_id) ==
    LET rows == IF node_id \in DOMAIN graph THEN graph[node_id] ELSE <<>>
    IN SubSeq(rows, 1, Min(Len(rows), ExplorationWidth * 2))

\* the loop over the rows in _explore_neighbors
RECURSIVE UnvisitedNeighbors(_, _, _)
UnvisitedNeighbors(rows, parent_id, visited) ==
    IF rows = <<>> THEN <<>>
    ELSE LET rest == UnvisitedNeighbors(Tail(rows), parent_id, visited)
         IN IF rows[1].id \notin visited
            THEN <<Node(rows[1].id, rows[1].relevance, 0, parent_id, rows[1].description)>>
                     \o rest
            ELSE rest

\* _explore_neighbors: a query that raises yields no neighbour
ExploreNeighbors(node, visited, failing) ==
    IF node.node_id \in failing THEN <<>>
    ELSE UnvisitedNeighbors(QueryNeighbors(node.node_id), node.node_id, visited)

RECURSIVE ExploreAll(_, _, _)
ExploreAll(current_nodes, visited, failing) ==
    IF current_nodes = <<>> THEN <<>>
    ELSE ExploreNeighbors(current_nodes[1], visited, failing)
             \o ExploreAll(Tail(current_nodes), visited, failing)

\* the number of query words found in the content of a node
KeywordScore(query, content) == Cardinality({i \in 1..Len(query) : query[i] \in content})

\* relevance * 0.7 + (keyword_score / len(query_words)) * 0.3, then
\* multiplied by decay_factor ** node.depth
Score(node, query) ==
    (((node.relevance_score * 7
        + ((KeywordScore(query, node.content) * 1000) \div Len(query)) * 3) \div 10)
        * Pow(DecayNumerator, node.depth)) \div Pow(DecayDenominator, node.depth)

\* list.sort(key=relevance_score, reverse=True): stable, equal scores keep
\* their order
RECURSIVE InsertByScore(_, _)
InsertByScore(sorted, n) ==
    IF sorted = <<>> THEN <<n>>
    ELSE IF sorted[1].relevance_score >= n.relevance_score
         THEN <<sorted[1]>> \o InsertByScore(Tail(sorted), n)
         ELSE <<n>> \o sorted

RECURSIVE SortByScore(_)
SortByScore(nodes) ==
    IF nodes = <<>> THEN <<>>
    ELSE InsertByScore(SortByScore(SubSeq(nodes, 1, Len(nodes) - 1)), nodes[Len(nodes)])

\* _filter_and_rank_nodes; an empty query makes the score raise on the first
\* node that passed the threshold, and the handler returns the nodes it got
FilterAndRankNodes(nodes, query) ==
    LET filtered == SelectSeq(nodes, LAMBDA n : n.relevance_score >= ExplorationThreshold)
    IN IF filtered = <<>> THEN <<>>
       ELSE IF query = <<>> THEN nodes
       ELSE SortByScore([i \in 1..Len(filtered) |->
                [filtered[i] EXCEPT !.relevance_score = Score(filtered[i], query)]])

\* a call and what it returned; new_nodes_count is part of the result of a
\* step that returns continue and 0 elsewhere
ExCall(op, path_id, status) ==
    [op |-> op, path_id |-> path_id, status |-> status, new_nodes_count |-> 0]

ExInit ==
    /\ graph \in Graphs
    /\ exploration_paths = <<>>
    /\ current_path_id = NoPath
    /\ visited_nodes = {}
    /\ ex_last = ExCall("none", NoPath, "none")
    /\ ex_calls = <<>>
    /\ ex_completed = {}

StartExploration(query, seed_entities) ==
    /\ exploration_paths' =
          (now :> [query |-> query,
                   nodes |-> [i \in 1..Len(seed_entities) |->
                                 Node(seed_entities[i], SeedScore, 0, NoNode, {seed_entities[i]})],
                   status |-> "active"]) @@ exploration_paths
    /\ visited_nodes' = visited_nodes \cup Range(seed_entities)
    /\ current_path_id' = now
    /\ ex_calls' = (now :> 0) @@ ex_calls
    /\ ex_completed' = ex_completed \ {now}
    /\ ex_last' = ExCall("start_exploration", now, "none")
    /\ UNCHANGED <<now, graph>>

\* explore_next_step(path_id); path_id = NoPath stands for None
ExploreNextStep(path_arg, failing) ==
    LET path_id == IF path_arg = NoPath THEN current_path_id ELSE path_arg
        call(status) == ExCall("explore_next_step", path_id, status)
    IN
    /\ UNCHANGED <<now, graph, current_path_id>>
    /\ IF path_id \notin DOMAIN exploration_paths
       THEN /\ ex_last' = call("error")
            /\ UNCHANGED <<exploration_paths, visited_nodes, ex_calls, ex_completed>>
       ELSE LET path == exploration_paths[path_id]
                current_depth == MaxDepth(path.nodes)
                current_nodes == AtDepth(path.nodes, current_depth)
                new_nodes == ExploreAll(current_nodes, visited_nodes, failing)
                ranked == FilterAndRankNodes(new_nodes, path.query)
                filtered_nodes == SubSeq(ranked, 1, Min(Len(ranked), ExplorationWidth))
                added == [i \in 1..Len(filtered_nodes) |->
                             [filtered_nodes[i] EXCEPT !.depth = current_depth + 1]]
            IN
            /\ ex_calls' = [ex_calls EXCEPT ![path_id] = Min(@ + 1, MaxSteps + 1)]
            /\ IF current_depth >= MaxSteps
               THEN /\ exploration_paths' = [exploration_paths EXCEPT ![path_id].status = "completed"]
                    /\ ex_last' = call("completed")
                    /\ ex_completed' = ex_completed \cup {path_id}
                    /\ UNCHANGED visited_nodes
               ELSE IF current_nodes = <<>>
               THEN /\ ex_last' = call("error")
                    /\ UNCHANGED <<exploration_paths, visited_nodes, ex_completed>>
               ELSE /\ exploration_paths' =
                          [exploration_paths EXCEPT ![path_id].nodes = @ \o added]
                    /\ visited_nodes' = visited_nodes \cup {added[i].node_id : i \in 1..Len(added)}
                    /\ ex_last' = [call("continue") EXCEPT !.new_nodes_count = Len(added)]
                    /\ UNCHANGED ex_completed

\* backtrack(path_id, target_depth), with enable_backtracking as configured
Backtrack(path_arg, target_depth) ==
    LET path_id == IF path_arg = NoPath THEN current_path_id ELSE path_arg
    IN
    /\ UNCHANGED <<now, graph, current_path_id>>
    /\ IF path_id \notin DOMAIN exploration_paths
       THEN /\ ex_last' = ExCall("backtrack", path_id, "false")
            /\ UNCHANGED <<exploration_paths, visited_nodes, ex_calls, ex_completed>>
       ELSE LET path == exploration_paths[path_id]
                nodes_to_keep == SelectSeq(path.nodes, LAMBDA n : n.depth <= target_depth)
                removed_nodes == SelectSeq(path.nodes, LAMBDA n : n.depth > target_depth)
            IN
            /\ exploration_paths' = [exploration_paths EXCEPT ![path_id].nodes = nodes_to_keep]
            /\ visited_nodes' = visited_nodes \ {removed_nodes[i].node_id : i \in 1..Len(removed_nodes)}
            /\ ex_calls' = [ex_calls EXCEPT ![path_id] = 0]
            /\ ex_completed' = ex_completed \ {path_id}
            /\ ex_last' = ExCall("backtrack", path_id, "true")

ExQuiet ==
    /\ graph = GraphChain
    /\ exploration_paths = <<>>
    /\ current_path_id = NoPath
    /\ visited_nodes = {}
    /\ ex_last = ExCall("none", NoPath, "none")
    /\ ex_calls = <<>>
    /\ ex_completed = {}

(***************************************************************************)
(* MemoryCacheBackend, DiskCacheBackend and CacheManager                   *)
(* (utils/cache_manager.py).  A ttl argument of 0 stands for None.         *)
(***************************************************************************)
NoValue == "None"
NoFile == [file |-> "missing"]
Corrupt == [file |-> "corrupt"]
Never == -1
NoTTL == 0
DefaultTTL == 2

CacheKeys == {"k1", "k2"}
CacheValues == {"v1", "v2"}
TTLs == {NoTTL, 1}
ProbeKey == "k1"

\* ttl or self.default_ttl
EffectiveTTL(ttl) == IF ttl = NoTTL THEN DefaultTTL ELSE ttl

MemIndex(m, key) ==
    IF \E i \in 1..Len(m) : m[i].key = key
    THEN CHOOSE i \in 1..Len(m) : m[i].key = key
    ELSE 0

\* MemoryCacheBackend._is_expired for an entry that is present
MemExpired(e) == now > e.created_at + e.ttl

\* a ranking that puts the most recently accessed entry first
AccessRankNewestFirst(m, i) ==
    Cardinality({j \in 1..Len(m) :
        \/ m[j].access > m[i].access
        \/ (m[j].access = m[i].access /\ j < i)})

\* position of entry i in sorted(self._access_times.items(), key=access time)
AccessRank(m, i) ==
    Cardinality({j \in 1..Len(m) :
        \/ m[j].access < m[i].access
        \/ (m[j].access = m[i].access /\ j < i)})

RECURSIVE KeepIndices(_, _, _)
KeepIndices(m, i, keep) ==
    IF i > Len(m) THEN <<>>
    ELSE IF i \in keep THEN <<m[i]>> \o KeepIndices(m, i + 1, keep)
    ELSE KeepIndices(m, i + 1, keep)

\* MemoryCacheBackend._evict_if_needed
EvictIfNeeded(m) ==
    IF Len(m) < max_size THEN m
    ELSE LET live == SelectSeq(m, LAMBDA e : ~MemExpired(e))
         IN IF Len(live) >= max_size
            THEN KeepIndices(live, 1,
                     {i \in 1..Len(live) : AccessRank(live, i) >= Len(live) - max_size + 1})
            ELSE live

\* a set that leaves a full cache as it is
MemSetKeepFirst(m, key, value, ttl) ==
    IF Len(m) >= max_size THEN m
    ELSE Append(m, [key |-> key, value |-> value, created_at |-> now,
                    ttl |-> EffectiveTTL(ttl), access |-> now])

\* MemoryCacheBackend.set
MemSet(m, key, value, ttl) ==
    LET evicted == EvictIfNeeded(m)
        entry == [key |-> key, value |-> value, created_at |-> now,
                  ttl |-> EffectiveTTL(ttl), access |-> now]
        i == MemIndex(evicted, key)
    IN IF i = 0 THEN Append(evicted, entry) ELSE [evicted EXCEPT ![i] = entry]

\* MemoryCacheBackend.get: the value, or NoValue
MemHit(m, key) == MemIndex(m, key) # 0 /\ ~MemExpired(m[MemIndex(m, key)])

MemTouch(m, key) == [m EXCEPT ![MemIndex(m, key)].access = now]

MemDelete(m, key) == SelectSeq(m, LAMBDA e : e.key # key)

\* DiskCacheBackend._is_expired for a file that is present and readable
DiskExpired(f) == now > f.mtime + f.ttl

DiskHit(d, key) == d[key] # NoFile /\ d[key] # Corrupt /\ ~DiskExpired(d[key])

\* DiskCacheBackend.get removes a file it cannot read and a file that expired
DiskAfterGet(d, key) == IF DiskHit(d, key) THEN d ELSE [d EXCEPT ![key] = NoFile]

\* DiskCacheBackend.set: the record is written, or pickle.dump raises on the
\* file that open(..., 'wb') has already truncated
DiskWrites == {"written", "dump_fails"}

DiskAfterSet(d, key, value, ttl, write) ==
    IF write = "written"
    THEN [d EXCEPT ![key] = [file |-> "record", value |-> value,
                             ttl |-> EffectiveTTL(ttl), mtime |-> now]]
    ELSE [d EXCEPT ![key] = Corrupt]

\* follows: the call is a get made right after a successful set of its key
MemKeys(m) == {m[i].key : i \in 1..Len(m)}

CaCall(op, key, value, ok, expires) ==
    [op |-> op, key |-> key, value |-> value, ok |-> ok, expires |-> expires,
     evicted |-> IF op = "set" /\ use_memory
                 THEN MemKeys(mem) \ MemKeys(EvictIfNeeded(mem)) ELSE {},
     follows |-> /\ op = "get"
                 /\ ca_last.op = "set"
                 /\ ca_last.ok
                 /\ ca_last.key = key]

NoCall ==
    [op |-> "none", key |-> "", value |-> NoValue, ok |-> FALSE,
     expires |-> Never, evicted |-> {}, follows |-> FALSE]

CaInitWith(m, d) ==
    /\ max_size = MemMaxSize
    /\ use_memory = m
    /\ use_disk = d
    /\ mem = <<>>
    /\ disk = [k \in CacheKeys |-> NoFile]
    /\ ca_last = NoCall
    /\ ca_expires = Never

\* CacheManager.__init__ refuses a manager without a backend
CaInit == \E m, d \in BOOLEAN : (m \/ d) /\ CaInitWith(m, d)

CaQuiet == CaInitWith(TRUE, TRUE)

CacheGet(key) ==
    /\ UNCHANGED <<now, max_size, use_memory, use_disk, ca_expires>>
    /\ IF use_memory /\ MemHit(mem, key)
       THEN /\ mem' = MemTouch(mem, key)
            /\ ca_last' = CaCall("get", key, mem[MemIndex(mem, key)].value, TRUE, Never)
            /\ UNCHANGED disk
       ELSE IF use_disk
       THEN /\ disk' = DiskAfterGet(disk, key)
            /\ IF DiskHit(disk, key)
               THEN /\ mem' = IF use_memory THEN MemSet(mem, key, disk[key].value, NoTTL) ELSE mem
                    /\ ca_last' = CaCall("get", key, disk[key].value, TRUE, Never)
               ELSE /\ ca_last' = CaCall("get", key, NoValue, FALSE, Never)
                    /\ UNCHANGED mem
       ELSE /\ ca_last' = CaCall("get", key, NoValue, FALSE, Never)
            /\ UNCHANGED <<mem, disk>>

CacheSet(key, value, ttl, write) ==
    /\ UNCHANGED <<now, max_size, use_memory, use_disk>>
    /\ mem' = IF use_memory THEN MemSet(mem, key, value, ttl) ELSE mem
    /\ disk' = IF use_disk THEN DiskAfterSet(disk, key, value, ttl, write) ELSE disk
    /\ ca_last' = CaCall("set", key, value, ~use_disk \/ write = "written",
                         now + EffectiveTTL(ttl))
    /\ ca_expires' = IF key = ProbeKey THEN now + EffectiveTTL(ttl) ELSE ca_expires

CacheDelete(key) ==
    /\ UNCHANGED <<now, max_size, use_memory, use_disk, ca_expires>>
    /\ mem' = IF use_memory THEN MemDelete(mem, key) ELSE mem
    /\ disk' = IF use_disk THEN [disk EXCEPT ![key] = NoFile] ELSE disk
    /\ ca_last' = CaCall("delete", key, NoValue,
                         /\ use_memory => MemIndex(mem, key) # 0
                         /\ use_disk => disk[key] # NoFile,
                         Never)

CacheClear ==
    /\ UNCHANGED <<now, max_size, use_memory, use_disk, ca_expires>>
    /\ mem' = IF use_memory THEN <<>> ELSE mem
    /\ disk' = IF use_disk THEN [k \in CacheKeys |-> NoFile] ELSE disk
    /\ ca_last' = CaCall("clear", "", NoValue, TRUE, Never)

(***************************************************************************)
(* CacheManager.get run by a second thread.  Each backend call holds the   *)
(* backend's lock, the manager holds none, so the calls of other threads   *)
(* can run between the reader's disk read and its write to the memory      *)
(* tier.  ca_last keeps recording the calls of the other threads.          *)
(***************************************************************************)
RdInit ==
    /\ rd_pc = "idle"
    /\ rd_key = ""
    /\ rd_value = NoValue

RdQuiet == RdInit

\* the reader's get up to the value it read from the disk tier
ReaderReadsDisk(key) ==
    /\ rd_pc = "idle"
    /\ use_memory
    /\ use_disk
    /\ ~MemHit(mem, key)
    /\ disk' = DiskAfterGet(disk, key)
    /\ rd_key' = key
    /\ IF DiskHit(disk, key)
       THEN /\ rd_pc' = "loading"
            /\ rd_value' = disk[key].value
       ELSE /\ rd_value' = NoValue
            /\ UNCHANGED rd_pc
    /\ UNCHANGED <<now, max_size, use_memory, use_disk, mem, ca_last, ca_expires>>

\* self.memory_backend.set(key, value) with the value read before; the
\* reader's get returns it
ReaderLoadsMemory ==
    /\ rd_pc = "loading"
    /\ mem' = MemSet(mem, rd_key, rd_value, NoTTL)
    /\ rd_pc' = "idle"
    /\ UNCHANGED <<now, max_size, use_memory, use_disk, disk, ca_last, ca_expires,
                   rd_key, rd_value>>

(***************************************************************************)
(* DualPathSearcher (reasoning/search/dual_searcher.py).  A retrieval      *)
(* function either raises or returns a list; search is one step except in  *)
(* _search_parallel, where the two futures complete one at a time.         *)
(***************************************************************************)
HistoryLimit == 2

KbItems == {"a", "b"}

KgItems == {"b", "c"}

RECURSIVE ListsUpTo(_, _)
ListsUpTo(items, n) ==
    IF n = 0 THEN {<<>>}
    ELSE ListsUpTo(items, n - 1) \cup
         {Append(l, x) : l \in {m \in ListsUpTo(items, n - 1) : Len(m) = n - 1},
                         x \in items}

Returns(result) == [raises |-> FALSE, result |-> result]

Raises == [raises |-> TRUE, result |-> <<>>]

KbOutcomes == {Returns(l) : l \in ListsUpTo(KbItems, MaxResults)} \cup {Raises}

KgOutcomes == {Returns(l) : l \in ListsUpTo(KgItems, MaxResults)} \cup {Raises}

SearchTypes == {"kb", "kg", "both"}

\* _search_kb_only, _search_kg_only
SearchOnly(fn) == IF fn.raises THEN <<>> ELSE fn.result

\* the de-duplicating loop of _merge_results over all_results
RECURSIVE FirstSeen(_, _)
FirstSeen(all_results, seen) ==
    IF all_results = <<>> THEN <<>>
    ELSE IF Head(all_results) \in seen THEN FirstSeen(Tail(all_results), seen)
    ELSE <<Head(all_results)>> \o
         FirstSeen(Tail(all_results), seen \cup {Head(all_results)})

MergeResultsKgFirst(kb_results, kg_results) == FirstSeen(kg_results \o kb_results, {})

MergeResultsKbOnly(kb_results, kg_results) == FirstSeen(kb_results, {})

\* _merge_results
MergeResults(kb_results, kg_results) == FirstSeen(kb_results \o kg_results, {})

\* _search_sequential
SearchSequential(fn) == MergeResults(SearchOnly(fn.kb), SearchOnly(fn.kg))

\* the query of a search call that is not part of a batch
SearchQuery == "q"

\* self.search_history[-100:]
LastEntries(history) ==
    SubSeq(history, Len(history) - Min(Len(history), HistoryLimit) + 1, Len(history))

\* _record_search_history, run without another thread in between
RecordSearchHistory(history, query) ==
    IF Len(history) + 1 > HistoryLimit
    THEN LastEntries(Append(history, query))
    ELSE Append(history, query)

DsInitWith(parallel) ==
    /\ enable_parallel = parallel
    /\ search_history = <<>>
    /\ ds_pc = "idle"
    /\ ds_type = "none"
    /\ ds_fn = [kb |-> Raises, kg |-> Raises]
    /\ ds_pending = {}
    /\ ds_results = [kb |-> <<>>, kg |-> <<>>]
    /\ ds_order = <<>>
    /\ ds_via = "none"
    /\ ds_out = <<>>

DsInit == \E parallel \in BOOLEAN : DsInitWith(parallel)

DsQuiet == DsInitWith(TRUE)

\* search, up to the point where it returns or waits in as_completed
Search(search_type, kb, kg) ==
    /\ ds_pc = "idle"
    /\ ds_type' = search_type
    /\ ds_fn' = [kb |-> kb, kg |-> kg]
    /\ ds_order' = <<>>
    /\ ds_results' = [kb |-> <<>>, kg |-> <<>>]
    /\ UNCHANGED enable_parallel
    /\ IF search_type = "both" /\ enable_parallel
       THEN /\ ds_pc' = "joining"
            /\ ds_pending' = {"kb", "kg"}
            /\ UNCHANGED <<search_history, ds_via, ds_out>>
       ELSE /\ ds_out' = CASE search_type = "kb" -> SearchOnly(kb)
                           [] search_type = "kg" -> SearchOnly(kg)
                           [] OTHER -> SearchSequential([kb |-> kb, kg |-> kg])
            /\ ds_via' = IF search_type = "both" THEN "sequential" ELSE "single"
            /\ search_history' = RecordSearchHistory(search_history, SearchQuery)
            /\ UNCHANGED <<ds_pc, ds_pending>>

\* one future completes and the as_completed loop takes its result
FutureCompletes(branch) ==
    /\ ds_pc = "joining"
    /\ branch \in ds_pending
    /\ ds_pending' = ds_pending \ {branch}
    /\ ds_order' = Append(ds_order, branch)
    /\ ds_results' = IF ~ds_fn[branch].raises /\ ds_fn[branch].result # <<>>
                     THEN [ds_results EXCEPT ![branch] = ds_fn[branch].result]
                     ELSE ds_results
    /\ UNCHANGED <<enable_parallel, search_history, ds_pc, ds_type, ds_fn, ds_via, ds_out>>

\* both futures were collected: _search_parallel merges and search returns
JoinReturns ==
    /\ ds_pc = "joining"
    /\ ds_pending = {}
    /\ ds_out' = MergeResults(ds_results.kb, ds_results.kg)
    /\ ds_via' = "parallel"
    /\ ds_pc' = "idle"
    /\ search_history' = RecordSearchHistory(search_history, SearchQuery)
    /\ UNCHANGED <<enable_parallel, ds_type, ds_fn, ds_pending, ds_results, ds_order>>

\* as_completed raises TimeoutError with a future still running: the executor's
\* exit waits for it, then _search_sequential calls both functions again
JoinTimesOut ==
    /\ ds_pc = "joining"
    /\ ds_pending # {}
    /\ ds_out' = SearchSequential(ds_fn)
    /\ ds_via' = "timeout"
    /\ ds_pc' = "idle"
    /\ ds_pending' = {}
    /\ search_history' = RecordSearchHistory(search_history, SearchQuery)
    /\ UNCHANGED <<enable_parallel, ds_type, ds_fn, ds_results, ds_order>>

DsNext ==
    \/ \E t \in SearchTypes, kb \in KbOutcomes, kg \in KgOutcomes :
          Search(t, kb, kg) /\ UNCHANGED dsOthers
    \/ \E branch \in {"kb", "kg"} : FutureCompletes(branch) /\ UNCHANGED dsOthers
    \/ JoinReturns /\ UNCHANGED dsOthers
    \/ JoinTimesOut /\ UNCHANGED dsOthers

(***************************************************************************)
(* DualPathSearcher.batch_search: one worker thread per query runs search  *)
(* (here a knowledge-base search) and records it in search_history; the    *)
(* caller collects the futures as they complete.  A worker is a record     *)
(* [query, fn, pc, result, snap]; its pc is "running" until the retrieval  *)
(* returned and the entry was appended, "appended" until the length test,  *)
(* "sliced" while it holds the slice it has not assigned yet, "done" when  *)
(* search returned and "collected" when the caller stored its result.      *)
(***************************************************************************)
BatchNames == {"q1", "q2"}

BatchQueries == {l \in ListsUpTo(BatchNames, MaxBatch) : l # <<>>}

\* what kb_retrieve_func does for the query of a worker
WorkerOutcomes == {Returns(<<"a">>), Returns(<<"b">>), Raises}

Worker(query, fn, pc, result, snap) ==
    [query |-> query, fn |-> fn, pc |-> pc, result |-> result, snap |-> snap]

Finished(w) == w.pc \in {"done", "collected"}

\* self.max_workers
MaxWorkers == 2

\* the executor hands the queries to its threads in the order submitted: a
\* worker has a thread once fewer than max_workers earlier ones are unfinished
HasThread(i) ==
    Cardinality({j \in 1..(i - 1) : ~Finished(bs_workers[j])}) < MaxWorkers

BsInit ==
    /\ bs_pc = "idle"
    /\ bs_workers = <<>>
    /\ bs_results = <<>>
    /\ bs_via = "none"
    /\ bs_out = <<>>

BsQuiet == BsInit

\* the history after the searches of a sequential batch
RECURSIVE RecordAll(_, _)
RecordAll(history, queries) ==
    IF queries = <<>> THEN history
    ELSE RecordAll(RecordSearchHistory(history, queries[1]), Tail(queries))

\* batch_search up to the submission of the futures; without enable_parallel
\* the whole call
BatchSearch(queries, fns) ==
    /\ bs_pc = "idle"
    /\ ds_pc = "idle"
    /\ bs_results' = <<>>
    /\ IF enable_parallel
       THEN /\ bs_pc' = "joining"
            /\ bs_workers' = [i \in 1..Len(queries) |->
                                 Worker(queries[i], fns[i], "running", <<>>, <<>>)]
            /\ UNCHANGED <<search_history, bs_via, bs_out>>
       ELSE /\ bs_workers' = [i \in 1..Len(queries) |->
                                 Worker(queries[i], fns[i], "collected",
                                        SearchOnly(fns[i]), <<>>)]
            /\ search_history' = RecordAll(search_history, queries)
            /\ bs_out' = [q \in Range(queries) |->
                             LET last == CHOOSE i \in 1..Len(queries) :
                                             /\ queries[i] = q
                                             /\ \A j \in (i + 1)..Len(queries) : queries[j] # q
                             IN SearchOnly(fns[last])]
            /\ bs_via' = "sequential"
            /\ UNCHANGED bs_pc

\* a worker's search returns from the retrieval and
\* _record_search_history appends its entry
WorkerAppends(i) ==
    /\ bs_pc \in {"joining", "timed_out"}
    /\ i \in DOMAIN bs_workers
    /\ bs_workers[i].pc = "running"
    /\ HasThread(i)
    /\ search_history' = Append(search_history, bs_workers[i].query)
    /\ bs_workers' = [bs_workers EXCEPT ![i].pc = "appended",
                                        ![i].result = SearchOnly(bs_workers[i].fn)]
    /\ UNCHANGED <<bs_pc, bs_results, bs_via, bs_out>>

\* the worker tests the length and evaluates self.search_history[-100:]
WorkerSlices(i) ==
    /\ bs_pc \in {"joining", "timed_out"}
    /\ i \in DOMAIN bs_workers
    /\ bs_workers[i].pc = "appended"
    /\ bs_workers' = IF Len(search_history) > HistoryLimit
                     THEN [bs_workers EXCEPT ![i].pc = "sliced",
                                             ![i].snap = LastEntries(search_history)]
                     ELSE [bs_workers EXCEPT ![i].pc = "done"]
    /\ UNCHANGED <<search_history, bs_pc, bs_results, bs_via, bs_out>>

\* the worker assigns the slice to self.search_history and search returns
WorkerStores(i) ==
    /\ bs_pc \in {"joining", "timed_out"}
    /\ i \in DOMAIN bs_workers
    /\ bs_workers[i].pc = "sliced"
    /\ search_history' = bs_workers[i].snap
    /\ bs_workers' = [bs_workers EXCEPT ![i].pc = "done", ![i].snap = <<>>]
    /\ UNCHANGED <<bs_pc, bs_results, bs_via, bs_out>>

\* the as_completed loop takes a completed future: results[query] = result
BatchCollects(i) ==
    /\ bs_pc = "joining"
    /\ i \in DOMAIN bs_workers
    /\ bs_workers[i].pc = "done"
    /\ bs_results' = (bs_workers[i].query :> bs_workers[i].result) @@ bs_results
    /\ bs_workers' = [bs_workers EXCEPT ![i].pc = "collected"]
    /\ UNCHANGED <<search_history, bs_pc, bs_via, bs_out>>

\* every future was collected: batch_search returns results
BatchReturns ==
    /\ bs_pc = "joining"
    /\ \A i \in DOMAIN bs_workers : bs_workers[i].pc = "collected"
    /\ bs_out' = bs_results
    /\ bs_via' = "parallel"
    /\ bs_pc' = "idle"
    /\ UNCHANGED <<search_history, bs_workers, bs_results>>

\* as_completed raises TimeoutError with a future still running; the
\* executor's exit then waits for the workers
BatchTimesOut ==
    /\ bs_pc = "joining"
    /\ \E i \in DOMAIN bs_workers : ~Finished(bs_workers[i])
    /\ bs_pc' = "timed_out"
    /\ UNCHANGED <<search_history, bs_workers, bs_results, bs_via, bs_out>>

\* the workers have finished: the handler of batch_search returns
\* {query: [] for query in queries}
BatchTimeoutReturns ==
    /\ bs_pc = "timed_out"
    /\ \A i \in DOMAIN bs_workers : Finished(bs_workers[i])
    /\ bs_out' = [q \in {bs_workers[i].query : i \in DOMAIN bs_workers} |-> <<>>]
    /\ bs_via' = "timeout"
    /\ bs_pc' = "idle"
    /\ UNCHANGED <<search_history, bs_workers, bs_results>>

\* the variables of the searcher that batch_search leaves alone
dsRest == <<enable_parallel, ds_pc, ds_type, ds_fn, ds_pending, ds_results, ds_order,
            ds_via, ds_out>>

bsOthers == <<now, evVars, exVars, caVars, dsRest, thVars, rsVars, drVars, ceVars, avVars,
              rdVars>>

BatchNext ==
    \/ \E kb \in {Returns(<<"a">>)} :
          /\ bs_pc = "idle"
          /\ Search("kb", kb, Raises)
          /\ UNCHANGED <<dsOthers>>
    \/ \E queries \in BatchQueries :
          \E fns \in [1..Len(queries) -> WorkerOutcomes] :
              BatchSearch(queries, fns) /\ UNCHANGED bsOthers
    \/ \E i \in 1..MaxBatch : WorkerAppends(i) /\ UNCHANGED bsOthers
    \/ \E i \in 1..MaxBatch : WorkerSlices(i) /\ UNCHANGED bsOthers
    \/ \E i \in 1..MaxBatch : WorkerStores(i) /\ UNCHANGED bsOthers
    \/ \E i \in 1..MaxBatch : BatchCollects(i) /\ UNCHANGED bsOthers
    \/ BatchReturns /\ UNCHANGED bsOthers
    \/ BatchTimesOut /\ UNCHANGED bsOthers
    \/ BatchTimeoutReturns /\ UNCHANGED bsOthers

(***************************************************************************)
(* ThinkingEngine (reasoning/core/thinking_engine.py).  A session is keyed *)
(* by the clock; a step is recorded as the kind of response it holds.      *)
(***************************************************************************)
NoSession == -1

\* what llm.invoke does: a response with queries, one with a ready keyword and
\* no query, one with neither, an exception, or a response after the timeout
LLMOutcomes == {"queries", "ready", "plain", "raises", "slow"}

ThinkingDepths == 1..MaxThinkingDepth

\* a depth test that allows one more step
DepthExceeded(steps) == Len(steps) > max_depth

\* len(session.steps) >= self.max_depth
DepthReached(steps) == Len(steps) >= max_depth

\* the status generate_next_query derives from the response
StepStatus(response) ==
    CASE response = "queries" -> "has_query"
      [] response = "ready" -> "answer_ready"
      [] OTHER -> "continue_thinking"

ThInitWith(depth) ==
    /\ max_depth = depth
    /\ sessions = <<>>
    /\ session_status = <<>>
    /\ current_session_id = NoSession
    /\ msg_history = 0
    /\ th_last = "none"
    /\ th_calls = 0
    /\ th_ready = FALSE
    /\ th_plain = TRUE

ThInit == \E depth \in ThinkingDepths : ThInitWith(depth)

ThQuiet == ThInitWith(MaxThinkingDepth)

CreateSession ==
    /\ sessions' = (now :> <<>>) @@ sessions
    /\ session_status' = (now :> "active") @@ session_status
    /\ current_session_id' = now
    /\ msg_history' = 2
    /\ th_calls' = 0
    /\ th_ready' = FALSE
    /\ th_plain' = TRUE
    /\ UNCHANGED <<now, max_depth, th_last>>

GenerateNextQuery(response) ==
    /\ th_calls < MaxThinkingDepth + 2
    /\ UNCHANGED <<now, max_depth, current_session_id, session_status>>
    /\ IF current_session_id = NoSession
       THEN /\ th_last' = "error"
            /\ UNCHANGED <<sessions, msg_history, th_calls, th_ready, th_plain>>
       ELSE /\ th_calls' = th_calls + 1
            /\ IF DepthReached(sessions[current_session_id])
               THEN /\ th_last' = "answer_ready"
                    /\ th_ready' = TRUE
                    /\ UNCHANGED <<sessions, msg_history, th_plain>>
               ELSE /\ th_plain' = (th_plain /\ response \in {"queries", "plain"})
                    /\ IF response = "raises"
                       THEN /\ th_last' = "error"
                            /\ UNCHANGED <<sessions, msg_history, th_ready>>
                       ELSE IF response = "slow"
                       THEN /\ th_last' = "timeout"
                            /\ UNCHANGED <<sessions, msg_history, th_ready>>
                       ELSE /\ sessions' = [sessions EXCEPT ![current_session_id] =
                                               Append(@, response)]
                            /\ msg_history' = msg_history + 1
                            /\ th_last' = StepStatus(response)
                            /\ th_ready' = (th_ready \/ response = "ready")

SessionArgs == {NoSession} \cup DOMAIN sessions

\* reset_session(session_id), NoSession standing for the default None
ResetSession(session_arg) ==
    LET session_id == IF session_arg = NoSession THEN current_session_id ELSE session_arg
    IN /\ UNCHANGED <<now, max_depth, th_last>>
       /\ IF session_id # NoSession /\ session_id \in DOMAIN sessions
          THEN /\ sessions' = [k \in DOMAIN sessions \ {session_id} |-> sessions[k]]
               /\ session_status' = [k \in DOMAIN sessions \ {session_id} |->
                                        session_status[k]]
               /\ IF session_id = current_session_id
                  THEN /\ current_session_id' = NoSession
                       /\ msg_history' = 0
                       /\ th_calls' = 0
                       /\ th_ready' = FALSE
                       /\ th_plain' = TRUE
                  ELSE UNCHANGED <<current_session_id, msg_history, th_calls, th_ready, th_plain>>
          ELSE UNCHANGED <<sessions, session_status, current_session_id, msg_history,
                           th_calls, th_ready, th_plain>>

ThClose ==
    /\ sessions' = <<>>
    /\ session_status' = <<>>
    /\ current_session_id' = NoSession
    /\ msg_history' = 0
    /\ th_calls' = 0
    /\ th_ready' = FALSE
    /\ th_plain' = TRUE
    /\ UNCHANGED <<now, max_depth, th_last>>

ThTick == Tick(MaxSessionClock) /\ UNCHANGED <<evVars, exVars, caVars, dsVars, thVars, rsVars, drVars, fnVars>>

ThNext ==
    \/ ThTick
    \/ CreateSession /\ UNCHANGED thOthers
    \/ \E response \in LLMOutcomes : GenerateNextQuery(response) /\ UNCHANGED thOthers
    \/ \E session_arg \in SessionArgs : ResetSession(session_arg) /\ UNCHANGED thOthers
    \/ ThClose /\ UNCHANGED thOthers

(***************************************************************************)
(* DeepResearchTool (tools/deep_research_tool.py): search and the loop of  *)
(* _execute_deep_research, driving the thinking engine, the dual searcher, *)
(* the evidence tracker and the result cache of the tool.                  *)
(***************************************************************************)
NoAnswer == "none"

\* the cache key of the query
ResearchKey == "k1"

\* evidence_summary.get("evidence_count", 0) >= 5
EnoughEvidence == 2

\* a response of the model holds at most max_queries_per_step queries
QueriesPerStep == 2

\* what local_tool.search and global_tool.search do: raise, return an empty
\* string, or return a text
LocalToolOutcomes == {Raises, Returns(ContentA)}

GlobalToolOutcomes == {Returns(<<>>), Returns(ContentA), Returns(ContentMarked)}

\* _kb_retrieve, _kg_retrieve
Retrieve(outcome) ==
    IF outcome.raises \/ outcome.result = <<>> THEN <<>> ELSE <<outcome.result>>

\* what hybrid_tool.search does in _generate_final_answer
AnswerOutcomes == {"answer", "raises"}

\* _generate_final_answer
FinalAnswer(outcome) == IF outcome = "raises" THEN "apology" ELSE "answer"

\* f"search_{iteration}"
SearchSourceId(i) == <<"s", ToString(i)>>

\* ThinkingEngine.add_executed_query
AddExecutedQuery ==
    /\ msg_history' = IF current_session_id = NoSession THEN msg_history
                      ELSE msg_history + 1
    /\ UNCHANGED <<now, max_depth, sessions, session_status, current_session_id,
                   th_last, th_calls, th_ready, th_plain>>

\* get_evidence_chain_summary of the current chain
EvidenceChainSummary ==
    IF current_chain_id = NoChain \/ current_chain_id \notin DOMAIN evidence_chains
    THEN [error |-> TRUE, evidence_count |-> 0, reasoning_steps_count |-> 0]
    ELSE [error |-> FALSE,
          evidence_count |-> Len(evidence_chains[current_chain_id].items),
          reasoning_steps_count |-> Len(evidence_chains[current_chain_id].steps)]

RsInit ==
    /\ rs_pc = "idle"
    /\ iteration = 0
    /\ rs_queue = 0
    /\ rs_results = <<>>
    /\ all_retrieved_info = 0
    /\ rs_answer = NoAnswer

\* search up to the cache test: a hit is returned as it is
ResearchSearch ==
    /\ rs_pc = "idle"
    /\ CacheGet(ResearchKey)
    /\ IF ca_last'.ok
       THEN /\ rs_answer' = ca_last'.value
            /\ UNCHANGED rs_pc
       ELSE /\ rs_pc' = "begin"
            /\ rs_answer' = NoAnswer
    /\ UNCHANGED <<iteration, rs_queue, rs_results, all_retrieved_info>>
    /\ UNCHANGED <<evVars, exVars, dsVars, thVars, fnVars>>

\* _execute_deep_research up to the loop
ResearchBegin ==
    /\ rs_pc = "begin"
    /\ CreateEvidenceChain
    /\ CreateSession
    /\ rs_pc' = "loop"
    /\ iteration' = 0
    /\ all_retrieved_info' = 0
    /\ UNCHANGED <<rs_queue, rs_results, rs_answer>>
    /\ UNCHANGED <<exVars, caVars, dsVars, drVars, fnVars>>

LoopForever == TRUE

\* while iteration < self.max_iterations
LoopContinues == iteration < MaxIterations

\* one pass of the loop up to the dispatch on the status
ResearchIterate(response, queries) ==
    /\ rs_pc = "loop"
    /\ LoopContinues
    /\ iteration' = iteration + 1
    /\ GenerateNextQuery(response)
    /\ rs_pc' = CASE th_last' = "answer_ready" -> "answer"
                  [] th_last' = "has_query" -> "query"
                  [] OTHER -> "summary"
    /\ rs_queue' = IF th_last' = "has_query" THEN queries ELSE 0
    /\ UNCHANGED <<rs_results, all_retrieved_info, rs_answer>>
    /\ UNCHANGED <<evVars, exVars, caVars, dsVars, drVars, fnVars>>

ResearchLoopEnds ==
    /\ rs_pc = "loop"
    /\ ~LoopContinues
    /\ rs_pc' = "answer"
    /\ UNCHANGED <<iteration, rs_queue, rs_results, all_retrieved_info, rs_answer>>
    /\ UNCHANGED <<now, evVars, exVars, caVars, dsVars, thVars, drVars, fnVars>>

\* _execute_sub_query calls dual_searcher.search
ResearchSubQuery(kb, kg) ==
    /\ rs_pc = "query"
    /\ Search("both", Returns(Retrieve(kb)), Returns(Retrieve(kg)))
    /\ rs_pc' = "searching"
    /\ UNCHANGED <<iteration, rs_queue, rs_results, all_retrieved_info, rs_answer>>
    /\ UNCHANGED <<now, evVars, exVars, caVars, thVars, drVars, fnVars>>

\* dual_searcher.search has returned: _execute_sub_query records the results
ResearchTakeResults ==
    /\ rs_pc = "searching"
    /\ ds_pc = "idle"
    /\ rs_results' = ds_out
    /\ all_retrieved_info' = all_retrieved_info + Len(ds_out)
    /\ rs_pc' = "add"
    /\ UNCHANGED <<iteration, rs_queue, rs_answer>>
    /\ UNCHANGED <<now, evVars, exVars, caVars, dsVars, thVars, drVars, fnVars>>

\* one add_evidence of the loop over search_results
ResearchAddEvidence ==
    /\ rs_pc = "add"
    /\ rs_results # <<>>
    /\ AddEvidence(SearchSourceId(iteration), Head(rs_results), NoStep, 8, HighConfidence)
    /\ rs_results' = Tail(rs_results)
    /\ UNCHANGED <<rs_pc, iteration, rs_queue, all_retrieved_info, rs_answer>>
    /\ UNCHANGED <<exVars, caVars, dsVars, thVars, drVars, fnVars>>

\* add_executed_query, then the next sub-query or the end of the for loop
ResearchExecuted ==
    /\ rs_pc = "add"
    /\ rs_results = <<>>
    /\ AddExecutedQuery
    /\ rs_queue' = rs_queue - 1
    /\ rs_pc' = IF rs_queue > 1 THEN "query" ELSE "summary"
    /\ UNCHANGED <<iteration, rs_results, all_retrieved_info, rs_answer>>
    /\ UNCHANGED <<evVars, exVars, caVars, dsVars, drVars, fnVars>>

\* the evidence test that ends the pass
ResearchSummary ==
    /\ rs_pc = "summary"
    /\ rs_pc' = IF EvidenceChainSummary.evidence_count >= EnoughEvidence
                THEN "answer" ELSE "loop"
    /\ UNCHANGED <<iteration, rs_queue, rs_results, all_retrieved_info, rs_answer>>
    /\ UNCHANGED <<now, evVars, exVars, caVars, dsVars, thVars, drVars, fnVars>>

\* _generate_final_answer and validate_answer; when the loop was entered from
\* search, search caches and returns the answer
ResearchAnswer(outcome, write) ==
    /\ rs_pc = "answer"
    /\ rs_answer' = FinalAnswer(outcome)
    /\ IF dr_pc = "enhanced"
       THEN UNCHANGED <<now, caVars>>
       ELSE CacheSet(ResearchKey, FinalAnswer(outcome), NoTTL, write)
    /\ rs_pc' = "idle"
    /\ rs_queue' = 0
    /\ rs_results' = <<>>
    /\ UNCHANGED <<iteration, all_retrieved_info>>
    /\ UNCHANGED <<evVars, exVars, dsVars, thVars, drVars, fnVars>>

\* an exception inside _execute_deep_research: its handler returns a
\* message, which search (when the loop was entered from it) caches and returns
ResearchFails(write) ==
    /\ rs_pc \in {"begin", "loop", "query", "add", "summary", "answer"}
    /\ rs_answer' = "error"
    /\ IF dr_pc = "enhanced"
       THEN UNCHANGED <<now, caVars>>
       ELSE CacheSet(ResearchKey, "error", NoTTL, write)
    /\ rs_pc' = "idle"
    /\ rs_queue' = 0
    /\ rs_results' = <<>>
    /\ UNCHANGED <<iteration, all_retrieved_info>>
    /\ UNCHANGED <<evVars, exVars, dsVars, thVars, drVars, fnVars>>

\* the steps of one search call after the cache miss
ResearchRuns ==
    \/ ResearchBegin
    \/ \E response \in LLMOutcomes, queries \in 1..QueriesPerStep :
          ResearchIterate(response, queries)
    \/ ResearchLoopEnds
    \/ \E kb \in LocalToolOutcomes, kg \in GlobalToolOutcomes : ResearchSubQuery(kb, kg)
    \/ \E branch \in {"kb", "kg"} : FutureCompletes(branch) /\ UNCHANGED dsOthers
    \/ JoinReturns /\ UNCHANGED dsOthers
    \/ JoinTimesOut /\ UNCHANGED dsOthers
    \/ ResearchTakeResults
    \/ ResearchAddEvidence
    \/ ResearchExecuted
    \/ ResearchSummary
    \/ \E outcome \in AnswerOutcomes, write \in DiskWrites : ResearchAnswer(outcome, write)

ResearchNext ==
    \/ ResearchSearch /\ UNCHANGED drVars
    \/ ResearchRuns
    \/ \E write \in DiskWrites : ResearchFails(write)

RsQuiet == RsInit

(***************************************************************************)
(* DeeperResearchTool (tools/deeper_research_tool.py): search chooses by   *)
(* the estimated complexity between _execute_enhanced_research and the     *)
(* search of DeepResearchTool.  The community, knowledge-graph and chain   *)
(* exploration steps of the enhanced path work on objects of their own     *)
(* (_community_cache, _kg_cache, knowledge_builder, chain_explorer) and    *)
(* are left out.                                                           *)
(***************************************************************************)
\* self.complexity_threshold = 0.7
ComplexityThreshold == 7

\* simple_threshold, moderate_threshold, complex_threshold of the estimator
SimpleThreshold == 3

ModerateThreshold == 6

ComplexThreshold == 8

\* values of complexity.overall_complexity
ComplexityScores == {2, 7}

\* _determine_complexity_level
DetermineComplexityLevel(overall_complexity) ==
    IF overall_complexity < SimpleThreshold THEN "simple"
    ELSE IF overall_complexity < ModerateThreshold THEN "moderate"
    ELSE IF overall_complexity < ComplexThreshold THEN "complex"
    ELSE "very_complex"

\* the cache key of the query with enhanced=True
DeeperKey == "k2"

\* what hybrid_tool.search does in _enhance_final_answer
EnhanceOutcomes == {"answer", "empty", "raises"}

\* _enhance_final_answer
EnhanceFinalAnswer(base_result, outcome) ==
    IF outcome = "answer" THEN "enhanced" ELSE base_result

DrInit ==
    /\ dr_pc = "idle"
    /\ dr_overall = 0

DrQuiet == DrInit

\* search up to the choice of the strategy: a cache hit is returned as it is
DeeperSearch(overall_complexity) ==
    /\ dr_pc = "idle"
    /\ rs_pc = "idle"
    /\ CacheGet(DeeperKey)
    /\ dr_overall' = overall_complexity
    /\ IF ca_last'.ok
       THEN /\ rs_answer' = ca_last'.value
            /\ UNCHANGED dr_pc
       ELSE /\ rs_answer' = NoAnswer
            /\ dr_pc' = IF overall_complexity >= ComplexityThreshold
                        THEN "enhance" ELSE "super"
    /\ UNCHANGED <<rs_pc, iteration, rs_queue, rs_results, all_retrieved_info>>
    /\ UNCHANGED <<evVars, exVars, dsVars, thVars, fnVars>>

\* result = super().search(query)
DeeperSuperSearch ==
    /\ dr_pc = "super"
    /\ ResearchSearch
    /\ dr_pc' = "basic"
    /\ UNCHANGED dr_overall

\* _execute_enhanced_research up to its call of _execute_deep_research
DeeperEnhance ==
    /\ dr_pc = "enhance"
    /\ CreateEvidenceChain
    /\ CreateSession
    /\ all_retrieved_info' = 0
    /\ rs_pc' = "begin"
    /\ dr_pc' = "enhanced"
    /\ UNCHANGED <<iteration, rs_queue, rs_results, rs_answer, dr_overall>>
    /\ UNCHANGED <<exVars, caVars, dsVars, fnVars>>

\* the base result is there: _enhance_final_answer on the enhanced path,
\* then search caches and returns the result
DeeperReturn(outcome, write) ==
    /\ dr_pc \in {"basic", "enhanced"}
    /\ rs_pc = "idle"
    /\ LET result == IF dr_pc = "enhanced"
                     THEN EnhanceFinalAnswer(rs_answer, outcome) ELSE rs_answer
       IN /\ rs_answer' = result
          /\ CacheSet(DeeperKey, result, NoTTL, write)
    /\ dr_pc' = "idle"
    /\ UNCHANGED <<rs_pc, iteration, rs_queue, rs_results, all_retrieved_info, dr_overall>>
    /\ UNCHANGED <<evVars, exVars, dsVars, thVars, fnVars>>

(***************************************************************************)
(* ComplexityEstimator._calculate_semantic_complexity                      *)
(* (reasoning/validation/complexity_estimator.py), as a function of what   *)
(* it reads from the query: the number of entities, the number of          *)
(* extracted keywords and the number of high-complexity keywords that      *)
(* occur in it.  Scores are in thousandths.                                *)
(***************************************************************************)
NoScore == -1

\* extract_keywords(text, max_keywords=10) returns at most 10 keywords
MaxKeywords == 10

EntityCounts == 0..MaxEntityCount

KeywordCounts == 0..MaxKeywords

MatchedCounts == 0..MaxMatched

\* a relation score that shrinks with every keyword found
SemanticComplexityPenalised(entity_count, keyword_count, matched) ==
    Min(40 * Min(entity_count, 10) + 20 * Min(keyword_count, 15)
        + 30 * (5 - Min(matched, 5)), 1000)

\* min(entity_count / 10, 1.0) * 0.4 + min(len(keywords) / 15, 1.0) * 0.3
\* + min(0.1 * matched, 0.5) * 0.3, capped at 1.0
SemanticComplexity(entity_count, keyword_count, matched) ==
    Min(40 * Min(entity_count, 10) + 20 * Min(keyword_count, 15)
        + 30 * Min(matched, 5), 1000)

CeInit ==
    /\ ce_entity_count \in EntityCounts
    /\ ce_keyword_count \in KeywordCounts
    /\ ce_matched = 0
    /\ ce_score = NoScore
    /\ ce_prev = [matched |-> 0, score |-> NoScore]

CeQuiet ==
    /\ ce_entity_count = 0
    /\ ce_keyword_count = 0
    /\ ce_matched = 0
    /\ ce_score = NoScore
    /\ ce_prev = [matched |-> 0, score |-> NoScore]

\* _calculate_semantic_complexity of a query with the same entities and
\* extracted keywords and the given number of high-complexity keywords
CalculateSemanticComplexity(matched) ==
    /\ ce_matched' = matched
    /\ ce_score' = SemanticComplexity(ce_entity_count, ce_keyword_count, matched)
    /\ ce_prev' = [matched |-> ce_matched, score |-> ce_score]
    /\ UNCHANGED <<ce_entity_count, ce_keyword_count>>
    /\ UNCHANGED <<now, evVars, exVars, caVars, dsVars, thVars, rsVars, drVars, avVars,
                   bsVars, rdVars>>

CeNext == \E matched \in MatchedCounts : CalculateSemanticComplexity(matched)

(***************************************************************************)
(* AnswerValidator.validate_answer (reasoning/validation/                  *)
(* answer_validator.py).  Sub-scores are in tenths, the overall score in   *)
(* hundredths.  A parsed result is a function from its keys to numbers.    *)
(***************************************************************************)
\* validation_threshold: float = 0.8
ValidationThreshold == 80

SubChecks == {"accuracy", "completeness", "consistency"}

ScoreKey(check) ==
    CASE check = "accuracy" -> "accuracy_score"
      [] check = "completeness" -> "completeness_score"
      [] OTHER -> "consistency_score"

\* what a chain does: invoke raises, or it returns a text that is not JSON,
\* a JSON text that is not an object, an object without the score, or an
\* object with a score
ChainResponses ==
    {[kind |-> k, score |-> 0] : k \in {"raises", "unparsable", "not_object", "no_score"}}
    \cup {[kind |-> "object", score |-> sc] : sc \in {4, 9}}

\* _parse_validation_result of a text
ParseValidationResult(response, check) ==
    CASE response.kind = "unparsable" -> [is_dict |-> TRUE, dict |-> ("score" :> 5)]
      [] response.kind = "not_object" -> [is_dict |-> FALSE, dict |-> <<>>]
      [] response.kind = "no_score" -> [is_dict |-> TRUE, dict |-> <<>>]
      [] OTHER -> [is_dict |-> TRUE, dict |-> (ScoreKey(check) :> response.score)]

\* _validate_accuracy, _validate_completeness, _validate_consistency
ValidateCheck(response, check) ==
    IF response.kind = "raises"
    THEN [is_dict |-> TRUE, dict |-> (ScoreKey(check) :> 5)]
    ELSE ParseValidationResult(response, check)

\* result.get(key, 0.0)
Get(dict, key) == IF key \in DOMAIN dict THEN dict[key] ELSE 0

NoResult ==
    [validation_type |-> "none", is_valid |-> FALSE, confidence_score |-> 0,
     accuracy_score |-> NoScore, completeness_score |-> NoScore,
     consistency_score |-> NoScore]

NoResponses == [check \in SubChecks |-> [kind |-> "none", score |-> 0]]

AvInit ==
    /\ av_enabled \in BOOLEAN
    /\ av_responses = NoResponses
    /\ av_result = NoResult
    /\ av_history = 0

AvQuiet ==
    /\ av_enabled = TRUE
    /\ av_responses = NoResponses
    /\ av_result = NoResult
    /\ av_history = 0

ValidateAnswer(responses) ==
    /\ av_history < MaxValidations
    /\ av_responses' = responses
    /\ LET accuracy_result == ValidateCheck(responses["accuracy"], "accuracy")
           completeness_result == ValidateCheck(responses["completeness"], "completeness")
           consistency_result == ValidateCheck(responses["consistency"], "consistency")
           accuracy_score == Get(accuracy_result.dict, "accuracy_score")
           completeness_score == Get(completeness_result.dict, "completeness_score")
           consistency_score == Get(consistency_result.dict, "consistency_score")
           overall_score == accuracy_score * 4 + completeness_score * 3
                            + consistency_score * 3
       IN IF ~av_enabled
          THEN /\ av_result' = [NoResult EXCEPT !.validation_type = "disabled",
                                                !.is_valid = TRUE,
                                                !.confidence_score = 100]
               /\ UNCHANGED av_history
          ELSE IF \/ ~accuracy_result.is_dict
                  \/ ~completeness_result.is_dict
                  \/ ~consistency_result.is_dict
          THEN /\ av_result' = [NoResult EXCEPT !.validation_type = "error"]
               /\ UNCHANGED av_history
          ELSE /\ av_result' = [validation_type |-> "comprehensive",
                                is_valid |-> overall_score >= ValidationThreshold,
                                confidence_score |-> overall_score,
                                accuracy_score |-> accuracy_score,
                                completeness_score |-> completeness_score,
                                consistency_score |-> consistency_score]
               /\ av_history' = av_history + 1
    /\ UNCHANGED av_enabled
    /\ UNCHANGED <<now, evVars, exVars, caVars, dsVars, thVars, rsVars, drVars, ceVars,
                   bsVars, rdVars>>

AvNext == \E responses \in [SubChecks -> ChainResponses] : ValidateAnswer(responses)

FnQuiet == CeQuiet /\ AvQuiet /\ BsQuiet /\ RdQuiet

DeeperNext ==
    \/ \E overall_complexity \in ComplexityScores : DeeperSearch(overall_complexity)
    \/ DeeperSuperSearch
    \/ DeeperEnhance
    \/ ResearchRuns
    \/ \E write \in DiskWrites : ResearchFails(write)
    \/ \E outcome \in EnhanceOutcomes, write \in DiskWrites : DeeperReturn(outcome, write)

(***************************************************************************)
(* The memory tier alone: a manager without a disk tier whose memory tier  *)
(* holds one entry more than that of the two-tier manager, used with three *)
(* keys.                                                                   *)
(***************************************************************************)
MemoryKeys == CacheKeys \cup {"k3"}

MemoryInit ==
    /\ now = 0
    /\ max_size = MemMaxSize + 1
    /\ use_memory = TRUE
    /\ use_disk = FALSE
    /\ mem = <<>>
    /\ disk = [k \in CacheKeys |-> NoFile]
    /\ ca_last = NoCall
    /\ ca_expires = Never
    /\ EvQuiet
    /\ ExQuiet
    /\ DsQuiet
    /\ ThQuiet
    /\ RsQuiet
    /\ DrQuiet
    /\ FnQuiet

CaTick == Tick(MaxClock) /\ UNCHANGED <<evVars, exVars, caVars, dsVars, thVars, rsVars, drVars, fnVars>>

CaNext ==
    \/ CaTick
    \/ \E k \in CacheKeys : CacheGet(k) /\ UNCHANGED caOthers
    \/ \E k \in CacheKeys, v \in CacheValues, t \in TTLs, w \in DiskWrites :
          CacheSet(k, v, t, w) /\ UNCHANGED caOthers
    \/ \E k \in CacheKeys : CacheDelete(k) /\ UNCHANGED caOthers
    \/ CacheClear /\ UNCHANGED caOthers

CacheInit ==
    /\ now = 0
    /\ CaInit
    /\ EvQuiet
    /\ ExQuiet
    /\ DsQuiet
    /\ ThQuiet
    /\ RsQuiet
    /\ DrQuiet
    /\ FnQuiet

SpecCache == CacheInit /\ [][CaNext]_vars

MemoryNext ==
    \/ CaTick
    \/ \E k \in MemoryKeys : CacheGet(k) /\ UNCHANGED caOthers
    \/ \E k \in MemoryKeys, t \in TTLs : CacheSet(k, "v1", t, "written") /\ UNCHANGED caOthers

SpecMemory == MemoryInit /\ [][MemoryNext]_vars

rdOthers == <<evVars, exVars, dsVars, thVars, rsVars, drVars, ceVars, avVars, bsVars>>

TieredNext ==
    \/ CaTick
    \/ \E k \in CacheKeys : CacheGet(k) /\ UNCHANGED caOthers
    \/ \E k \in CacheKeys, v \in CacheValues :
          CacheSet(k, v, NoTTL, "written") /\ UNCHANGED caOthers
    \/ \E k \in CacheKeys : CacheDelete(k) /\ UNCHANGED caOthers
    \/ \E k \in CacheKeys : ReaderReadsDisk(k) /\ UNCHANGED rdOthers
    \/ ReaderLoadsMemory /\ UNCHANGED rdOthers

TieredInit ==
    /\ now = 0
    /\ CaInitWith(TRUE, TRUE)
    /\ EvQuiet
    /\ ExQuiet
    /\ DsQuiet
    /\ ThQuiet
    /\ RsQuiet
    /\ DrQuiet
    /\ FnQuiet

SpecTiered == TieredInit /\ [][TieredNext]_vars

BatchInit ==
    /\ now = 0
    /\ DsInit
    /\ BsInit
    /\ EvQuiet
    /\ ExQuiet
    /\ CaQuiet
    /\ ThQuiet
    /\ RsQuiet
    /\ DrQuiet
    /\ CeQuiet
    /\ AvQuiet
    /\ RdQuiet

SpecBatch == BatchInit /\ [][BatchNext]_vars

PathArgs == {NoPath} \cup DOMAIN exploration_paths

ExTick == Tick(MaxPathClock) /\ UNCHANGED <<evVars, exVars, caVars, dsVars, thVars, rsVars, drVars, fnVars>>

ExNext ==
    \/ ExTick
    \/ \E q \in Queries, seeds \in SeedLists : StartExploration(q, seeds) /\ UNCHANGED exOthers
    \/ \E p \in PathArgs, failing \in FailingQueries :
          ExploreNextStep(p, failing) /\ UNCHANGED exOthers
    \/ \E p \in PathArgs, d \in TargetDepths : Backtrack(p, d) /\ UNCHANGED exOthers

ExplorationInit ==
    /\ now = 0
    /\ ExInit
    /\ EvQuiet
    /\ CaQuiet
    /\ DsQuiet
    /\ ThQuiet
    /\ RsQuiet
    /\ DrQuiet
    /\ FnQuiet

SpecExploration == ExplorationInit /\ [][ExNext]_vars

EvidenceInit ==
    /\ now = 0
    /\ EvInit
    /\ ExQuiet
    /\ CaQuiet
    /\ DsQuiet
    /\ ThQuiet
    /\ RsQuiet
    /\ DrQuiet
    /\ FnQuiet

EvidenceNext == EvNext /\ UNCHANGED evOthers

SpecEvidence == EvidenceInit /\ [][EvidenceNext]_vars

SearchInit ==
    /\ now = 0
    /\ DsInit
    /\ EvQuiet
    /\ ExQuiet
    /\ CaQuiet
    /\ ThQuiet
    /\ RsQuiet
    /\ DrQuiet
    /\ FnQuiet

SpecSearch == SearchInit /\ [][DsNext]_vars

ThinkingInit ==
    /\ now = 0
    /\ ThInit
    /\ EvQuiet
    /\ ExQuiet
    /\ CaQuiet
    /\ DsQuiet
    /\ RsQuiet
    /\ DrQuiet
    /\ FnQuiet

SpecThinking == ThinkingInit /\ [][ThNext]_vars

ResearchInit ==
    /\ now = 0
    /\ RsInit
    /\ DrQuiet
    /\ FnQuiet
    /\ EvQuiet
    /\ ExQuiet
    /\ CaQuiet
    /\ DsQuiet
    /\ ThInit

SpecResearch == ResearchInit /\ [][ResearchNext]_vars

\* every call made inside a search call returns, so a call that has started
\* takes its next step
SpecResearchLive == ResearchInit /\ [][ResearchNext]_vars /\ WF_vars(ResearchRuns)

DeeperInit ==
    /\ now = 0
    /\ RsInit
    /\ DrInit
    /\ FnQuiet
    /\ EvQuiet
    /\ ExQuiet
    /\ CaQuiet
    /\ DsQuiet
    /\ ThInit

SpecDeeper == DeeperInit /\ [][DeeperNext]_vars

ValidatorInit ==
    /\ now = 0
    /\ AvInit
    /\ CeQuiet
    /\ BsQuiet
    /\ RdQuiet
    /\ EvQuiet
    /\ ExQuiet
    /\ CaQuiet
    /\ DsQuiet
    /\ ThQuiet
    /\ RsQuiet
    /\ DrQuiet

SpecValidator == ValidatorInit /\ [][AvNext]_vars

ComplexityInit ==
    /\ now = 0
    /\ CeInit
    /\ AvQuiet
    /\ BsQuiet
    /\ RdQuiet
    /\ EvQuiet
    /\ ExQuiet
    /\ CaQuiet
    /\ DsQuiet
    /\ ThQuiet
    /\ RsQuiet
    /\ DrQuiet

SpecComplexity == ComplexityInit /\ [][CeNext]_vars

(***************************************************************************)
(* The evidence tracker and the thinking engine of one tool, called in any *)
(* order, with chains and sessions created, cleared, reset and closed.     *)
(***************************************************************************)
SentinelInputs == {<<<<"s">>, ContentA, HighConfidence>>}

SentinelResponses == {"queries"}

SentinelTick ==
    Tick(MaxSessionClock)
    /\ UNCHANGED <<evVars, exVars, caVars, dsVars, thVars, rsVars, drVars, fnVars>>

SentinelNext ==
    \/ SentinelTick
    \/ CreateEvidenceChain /\ UNCHANGED evOthers
    \/ \E in \in SentinelInputs :
          AddEvidence(in[1], in[2], NoStep, 8, in[3]) /\ UNCHANGED evOthers
    \/ AddReasoningStep /\ UNCHANGED evOthers
    \/ \E chain_arg \in ChainArgs : ClearChain(chain_arg) /\ UNCHANGED evOthers
    \/ EvClose /\ UNCHANGED evOthers
    \/ CreateSession /\ UNCHANGED thOthers
    \/ \E response \in SentinelResponses : GenerateNextQuery(response) /\ UNCHANGED thOthers
    \/ \E session_arg \in SessionArgs : ResetSession(session_arg) /\ UNCHANGED thOthers
    \/ ThClose /\ UNCHANGED thOthers

SentinelInit ==
    /\ now = 0
    /\ EvQuiet
    /\ ThQuiet
    /\ ExQuiet
    /\ CaQuiet
    /\ DsQuiet
    /\ RsQuiet
    /\ DrQuiet
    /\ FnQuiet

SpecSentinel == SentinelInit /\ [][SentinelNext]_vars

CurrentChain == evidence_chains[current_chain_id]

\* indices of the items of a chain stored under source_id and a content
\* with the given first PrefixLen characters
SameKey(chain, source_id, prefix) ==
    {i \in 1..Len(chain.items) :
        /\ chain.items[i].source_id = source_id
        /\ Prefix(chain.items[i].content) = prefix}

\* C1 as stated: once add_evidence has stored the probe key in the current
\* chain, every later add_evidence with the same source_id and the same
\* first PrefixLen characters returns the probe's id and leaves every chain
\* as it was.
C1_AnyLaterAddReturnsSameId ==
    [][( /\ enable_deduplication
         /\ current_chain_id \in ev_probe
         /\ ev_last'.op = "add_evidence"
         /\ ev_last'.source_id = ProbeSource
         /\ ev_last'.prefix = Prefix(ProbeContent) )
       => ( /\ ev_last'.ret = ProbeId
            /\ evidence_chains' = evidence_chains )]_vars

\* C1 amended: with deduplication enabled, add_evidence with the source_id
\* and the first PrefixLen characters of an item the current chain still
\* holds returns that item's id and changes no chain (items, stored item
\* and step links), whatever relevance, confidence and step_id it carries;
\* the chain holds exactly one item under that key.
C1_DuplicateAddIsNoOp ==
    [][( /\ enable_deduplication
         /\ current_chain_id # NoChain
         /\ ev_last'.op = "add_evidence"
         /\ SameKey(CurrentChain, ev_last'.source_id, ev_last'.prefix) # {} )
       => LET held == SameKey(CurrentChain, ev_last'.source_id, ev_last'.prefix)
          IN /\ Cardinality(held) = 1
             /\ \E i \in held : ev_last'.ret = CurrentChain.items[i].evidence_id
             /\ evidence_chains' = evidence_chains]_vars

\* a duplicate add has just returned the id of an item the chain holds
\* with other content than the probe's
C1_Witness ==
    /\ ev_last.duplicate
    /\ current_chain_id # NoChain
    /\ \E i \in 1..Len(CurrentChain.items) :
          /\ CurrentChain.items[i].evidence_id = ev_last.ret
          /\ CurrentChain.items[i].content # ProbeContent
          /\ Prefix(CurrentChain.items[i].content) = Prefix(ProbeContent)

\* C2: every chain holds at most max_evidence_items evidence items.
C2_CapacityInvariant ==
    \A id \in DOMAIN evidence_chains :
        Len(evidence_chains[id].items) <= MaxEvidenceItems

\* the probe was stored and then evicted, and add_evidence has just stored
\* an item in the chain, which is full
C2_Witness ==
    /\ current_chain_id \in ev_probe
    /\ ProbeId \notin ItemIds(CurrentChain)
    /\ ev_last.op = "add_evidence"
    /\ ev_last.ret \in ItemIds(CurrentChain)
    /\ ~ev_last.duplicate
    /\ Len(CurrentChain.items) = MaxEvidenceItems

\* C3: an add_evidence call removes at most one item of the chain it adds
\* to, the removed item has the least relevance_score of the items the chain
\* held before the call, and a call that stores a new id in a full chain
\* removes exactly one.
C3_EvictsMinimumRelevance ==
    [][( current_chain_id # NoChain /\ ev_last'.op = "add_evidence" )
       => LET pre == CurrentChain.items
              post == evidence_chains'[current_chain_id]
              removed == {i \in 1..Len(pre) : pre[i].evidence_id \notin ItemIds(post)}
          IN /\ Cardinality(removed) <= 1
             /\ \A i \in removed : \A j \in 1..Len(pre) :
                    pre[i].relevance_score <= pre[j].relevance_score
             /\ ( /\ Len(pre) >= MaxEvidenceItems
                  /\ ev_last'.ret # NoId
                  /\ ev_last'.ret \notin ItemIds(CurrentChain) )
                => Cardinality(removed) = 1]_vars

\* the probe was stored with the threshold relevance and has been evicted
\* while every item the chain holds now has a higher relevance
C3_Witness ==
    /\ current_chain_id \in ev_probe
    /\ ProbeId \notin ItemIds(CurrentChain)
    /\ Len(CurrentChain.items) = MaxEvidenceItems
    /\ \A i \in 1..Len(CurrentChain.items) :
          CurrentChain.items[i].relevance_score > RelevanceThreshold

\* C4: on every path, once max_steps calls of explore_next_step have been
\* made since the path was started, one of them has returned completed.
C4_CompletedWithinMaxSteps ==
    \A p \in DOMAIN ex_calls : ex_calls[p] >= MaxSteps => p \in ex_completed

\* C5: no path holds two nodes with the same node_id at different depths.
C5_NoNodeAtTwoDepths ==
    \A p \in DOMAIN exploration_paths :
        LET nodes == exploration_paths[p].nodes
        IN \A i, j \in 1..Len(nodes) :
               nodes[i].node_id = nodes[j].node_id => nodes[i].depth = nodes[j].depth

\* C6: no path holds two nodes with the same node_id.
C6_NoRevisit ==
    \A p \in DOMAIN exploration_paths :
        LET nodes == exploration_paths[p].nodes
        IN \A i, j \in 1..Len(nodes) :
               nodes[i].node_id = nodes[j].node_id => i = j

\* C7: a get made right after a set of the same key that reported success,
\* before the entry's ttl has run out, returns the value that was set,
\* whatever the memory tier held and evicted.
C7_SetThenGetReturnsValue ==
    [][(/\ now' = now
        /\ ca_last.op = "set"
        /\ ca_last.ok
        /\ ca_last'.op = "get"
        /\ ca_last'.key = ca_last.key
        /\ now <= ca_last.expires)
       => (ca_last'.ok /\ ca_last'.value = ca_last.value)]_vars

\* the get followed a set that found the memory tier full and pushed the
\* other key out of it, and it returned a value
C7_Witness ==
    /\ use_memory
    /\ use_disk
    /\ ca_last.op = "get"
    /\ ca_last.follows
    /\ ca_last.ok
    /\ Len(mem) = MemMaxSize
    /\ \E k \in CacheKeys \ {ca_last.key} :
          /\ DiskHit(disk, k)
          /\ MemIndex(mem, k) = 0

\* C8: a get of a key made after the clock has passed the expiry of the most
\* recent set of that key returns absent.
C8_ExpiredEntryAbsent ==
    [][(/\ now' = now
        /\ ca_last'.op = "get"
        /\ ca_last'.key = ProbeKey
        /\ ca_expires # Never
        /\ now > ca_expires)
       => ca_last'.value = NoValue]_vars

\* the position at which x first occurs in s
FirstIndex(s, x) == CHOOSE i \in 1..Len(s) : s[i] = x /\ \A j \in 1..(i - 1) : s[j] # x

\* C9: when both retrieval functions return lists, what search(both) returns
\* holds every distinct element of the two lists exactly once, in the order
\* of first occurrence in kb followed by kg, whichever future completed first.
C9_FusionFirstSeen ==
    (/\ ds_pc = "idle"
     /\ ds_type = "both"
     /\ ~ds_fn.kb.raises
     /\ ~ds_fn.kg.raises)
    => LET cat == ds_fn.kb.result \o ds_fn.kg.result
       IN /\ Range(ds_out) = Range(cat)
          /\ \A i, j \in 1..Len(ds_out) :
                i < j => /\ ds_out[i] # ds_out[j]
                         /\ FirstIndex(cat, ds_out[i]) < FirstIndex(cat, ds_out[j])

\* kb = [a, b] and kg = [b, c] merged after the kg future completed first
C9_Witness ==
    /\ ds_pc = "idle"
    /\ ds_via = "parallel"
    /\ ds_order = <<"kg", "kb">>
    /\ ds_fn = [kb |-> Returns(<<"a", "b">>), kg |-> Returns(<<"b", "c">>)]
    /\ ds_out = <<"a", "b", "c">>

\* C10 as stated: with a model that always answers and never signals
\* readiness, one of the first max_depth calls returns answer_ready.
C10_ReadyWithinMaxDepthCalls ==
    (/\ current_session_id # NoSession
     /\ th_plain
     /\ th_calls >= max_depth)
    => th_ready

\* C10 amended: with such a model, one of the first max_depth + 1 calls
\* returns answer_ready.
C10_ReadyWithinMaxDepthPlusOne ==
    (/\ current_session_id # NoSession
     /\ th_plain
     /\ th_calls >= max_depth + 1)
    => th_ready

\* call max_depth + 1 found max_depth steps recorded and returned answer_ready
C10_Witness ==
    /\ current_session_id # NoSession
    /\ th_plain
    /\ max_depth = MaxThinkingDepth
    /\ th_calls = max_depth + 1
    /\ Len(sessions[current_session_id]) = max_depth
    /\ th_last = "answer_ready"
    /\ th_ready

\* C11: whichever sub-calls fail, a search call makes at most max_iterations
\* passes of the loop and then returns an answer string.
C11_AlwaysAnAnswer ==
    /\ [](iteration <= MaxIterations)
    /\ (rs_pc # "idle") ~> (rs_pc = "idle" /\ rs_answer # NoAnswer)

\* a call in which the model raised, no retrieval returned anything, the
\* final answer could not be generated and the cache write failed
C11_Witness ==
    /\ rs_pc = "idle"
    /\ iteration = MaxIterations
    /\ th_last = "error"
    /\ ds_type = "both"
    /\ all_retrieved_info = 0
    /\ rs_answer = "apology"
    /\ ca_last.op = "set"
    /\ ~ca_last.ok

\* C12 as stated: when the join timed out with a future still running, what
\* search(both) returns is the merge of the results collected from the
\* futures that had completed, the running one contributing nothing.
C12_TimeoutReturnsFinishedOnly ==
    (ds_pc = "idle" /\ ds_via = "timeout")
    => ds_out = MergeResults(ds_results.kb, ds_results.kg)

\* out holds the distinct elements of list once each, in order of first occurrence
DeDuplicated(out, list) ==
    /\ Range(out) = Range(list)
    /\ \A i, j \in 1..Len(out) :
          i < j => /\ out[i] # out[j]
                   /\ FirstIndex(list, out[i]) < FirstIndex(list, out[j])

\* C13: search(both) always returns; when exactly one retrieval function
\* raises it returns the de-duplicated results of the other, and when both
\* raise it returns the empty list.
C13_FailingBranchIsolated ==
    (ds_pc = "idle" /\ ds_type = "both")
    => /\ (ds_fn.kb.raises /\ ~ds_fn.kg.raises) => DeDuplicated(ds_out, ds_fn.kg.result)
       /\ (~ds_fn.kb.raises /\ ds_fn.kg.raises) => DeDuplicated(ds_out, ds_fn.kb.result)
       /\ (ds_fn.kb.raises /\ ds_fn.kg.raises) => ds_out = <<>>

\* the kb future raised and the kg future returned [b, b]
C13_Witness ==
    /\ ds_pc = "idle"
    /\ ds_via = "parallel"
    /\ ds_order = <<"kb", "kg">>
    /\ ds_fn = [kb |-> Raises, kg |-> Returns(<<"b", "b">>)]
    /\ ds_out = <<"b">>

\* C14 as stated: while search of the deeper tool works on a query whose
\* level is simple, no pass of the thinking loop is made
\* (generate_next_query is not called).
C14_SimpleQuerySkipsLoop ==
    [][(/\ dr_pc \in {"super", "basic"}
        /\ DetermineComplexityLevel(dr_overall) = "simple")
       => ~(rs_pc = "loop" /\ iteration' = iteration + 1)]_vars

\* C15 as stated: after a research run whose loop made at least 2 passes and
\* in which a sub-query returned results, the summary of the run's evidence
\* chain reports evidence_count > 0 and reasoning_steps_count >= 1.
C15_TraceHasEvidenceAndSteps ==
    (/\ rs_pc = "idle"
     /\ rs_answer \in {"answer", "apology"}
     /\ ca_last.op = "set"
     /\ iteration >= 2
     /\ all_retrieved_info > 0)
    => /\ ~EvidenceChainSummary.error
       /\ EvidenceChainSummary.evidence_count > 0
       /\ EvidenceChainSummary.reasoning_steps_count >= 1

\* C16: of two queries with the same entity count and the same number of
\* extracted keywords, the one in which at least as many high-complexity
\* keywords occur has at least the semantic complexity of the other; so a
\* query with k >= 1 such keywords scores at least what it scores with none.
C16_SemanticComplexityMonotone ==
    (ce_prev.score # NoScore /\ ce_matched >= ce_prev.matched)
    => ce_score >= ce_prev.score

\* two entities, three keywords: 140 with no high-complexity keyword,
\* 200 with two
C16_Witness ==
    /\ ce_entity_count = 2
    /\ ce_keyword_count = 3
    /\ ce_prev = [matched |-> 0, score |-> 140]
    /\ ce_matched = 2
    /\ ce_score = 200

\* the score of a sub-check in a validation result
SubScore(result, check) ==
    CASE check = "accuracy" -> result.accuracy_score
      [] check = "completeness" -> result.completeness_score
      [] OTHER -> result.consistency_score

\* C17 as stated: when validation is enabled and the response of a sub-check
\* is not parsable or not well-formed, validate_answer returns a
\* comprehensive (non-error) result in which that sub-check's score is 0.5.
C17_MalformedResponseScoresNeutral ==
    \A check \in SubChecks :
       (/\ av_enabled
        /\ av_result.validation_type # "none"
        /\ av_responses[check].kind \in {"unparsable", "not_object"})
       => /\ av_result.validation_type = "comprehensive"
          /\ SubScore(av_result, check) = 5

\* C18: a call of add_evidence or add_reasoning_step made with no active
\* chain returns the empty id and changes no chain, and a call of
\* generate_next_query made with no active session returns status error,
\* counts no call that reaches the model and changes no session and no
\* message history.
C18_NoActiveReturnsSentinel ==
    [][/\ (/\ current_chain_id = NoChain
           /\ \/ \E in \in SentinelInputs : AddEvidence(in[1], in[2], NoStep, 8, in[3])
              \/ AddReasoningStep)
          => /\ ev_last'.ret = NoId
             /\ evidence_chains' = evidence_chains
             /\ current_chain_id' = NoChain
       /\ (/\ current_session_id = NoSession
           /\ \E response \in SentinelResponses : GenerateNextQuery(response))
          => /\ th_last' = "error"
             /\ sessions' = sessions
             /\ msg_history' = msg_history
             /\ th_calls' = th_calls
             /\ current_session_id' = NoSession]_vars

\* chain 1 was cleared and session 1 was reset while chain 0 and session 0
\* are still stored; add_evidence has returned the empty id and
\* generate_next_query the status error
C18_Witness ==
    /\ current_chain_id = NoChain
    /\ DOMAIN evidence_chains = {0}
    /\ Len(evidence_chains[0].items) = 1
    /\ ev_last.op = "add_evidence"
    /\ ev_last.ret = NoId
    /\ current_session_id = NoSession
    /\ DOMAIN sessions = {0}
    /\ Len(sessions[0]) = 1
    /\ th_last = "error"

\* C19 as stated: once generate_next_query has returned answer_ready in the
\* current session its status is completed, and when its last call returned
\* error or timeout the status is completed or failed.
C19_TerminatedSessionLeavesActive ==
    current_session_id # NoSession
    => /\ th_ready => session_status[current_session_id] = "completed"
       /\ (th_calls > 0 /\ th_last \in {"error", "timeout"})
          => session_status[current_session_id] \in {"completed", "failed"}

\* C20: when set is called with the memory tier at capacity, every expired
\* entry is removed; an entry that is not expired is removed only if the
\* entries that are not expired still fill the tier, at most as many as
\* needed to make room for one, and none of the entries that are kept was
\* accessed before it.
C20_ExpiredFirstThenLeastRecentlyUsed ==
    [][(/\ use_memory
        /\ Len(mem) >= max_size
        /\ \E k \in MemoryKeys, v \in CacheValues, t \in TTLs, w \in DiskWrites :
              CacheSet(k, v, t, w))
       => LET key == ca_last'.key
              expired == {i \in 1..Len(mem) : MemExpired(mem[i])}
              live == (1..Len(mem)) \ expired
              gone == {i \in 1..Len(mem) :
                          mem[i].key # key /\ mem[i].key \notin MemKeys(mem')}
              kept == {i \in live : mem[i].key # key /\ mem[i].key \in MemKeys(mem')}
          IN /\ \A i \in expired : mem[i].key # key => i \in gone
             /\ (gone \cap live # {})
                => /\ Cardinality(live) >= max_size
                   /\ Cardinality(gone \cap live) <= Cardinality(live) - max_size + 1
             /\ \A i \in gone \cap live : \A j \in kept :
                    mem[i].access <= mem[j].access]_vars

\* the tier holds k1, stored first and read after k2 was stored, and k3,
\* whose set has just evicted k2
C20_Witness ==
    /\ ca_last.op = "set"
    /\ ca_last.key = "k3"
    /\ ca_last.evicted = {"k2"}
    /\ Len(mem) = max_size
    /\ mem[1].key = "k1"
    /\ mem[1].access > mem[1].created_at
    /\ ~MemExpired(mem[1])

\* C21 as stated: an add_evidence call that returns the empty id leaves the
\* chains exactly as they were, also when the current chain is at capacity
C21_RejectedAddLeavesChain ==
    [][(/\ \E in \in EvidenceInputs, st \in StepArgs, r \in RelevanceScores :
              AddEvidence(in[1], in[2], st, r, in[3])
        /\ ev_last'.ret = NoId)
       => evidence_chains' = evidence_chains]_vars

C28_NewChainKeepsOldOnes ==
    [][CreateEvidenceChain
       => \A c \in DOMAIN evidence_chains :
             /\ c \in DOMAIN evidence_chains'
             /\ evidence_chains'[c] = evidence_chains[c]]_vars

\* C24 as stated: once generate_next_query has returned timeout or error for
\* the current session, a later generate_next_query on that session appends
\* no step (th_calls > 0: the status in th_last is the one of a call made on
\* the current session)
C24_TimeoutOrErrorEndsSession ==
    [][(/\ th_last \in {"timeout", "error"}
        /\ current_session_id # NoSession
        /\ th_calls > 0
        /\ \E response \in LLMOutcomes : GenerateNextQuery(response))
       => sessions' = sessions]_vars

\* C23 as stated: when an explore_next_step call on a path has added no node
\* (or found no frontier node) without reporting completed, the next call on
\* that path, made with every graph query succeeding, reports completed
\* unless it adds a node
C23_ExhaustedFrontierCompletes ==
    [][(/\ ex_last.op = "explore_next_step"
        /\ ex_last.path_id \in DOMAIN exploration_paths
        /\ ex_last.status # "completed"
        /\ ex_last.new_nodes_count = 0
        /\ ExploreNextStep(ex_last.path_id, {}))
       => \/ ex_last'.status = "completed"
          \/ ex_last'.new_nodes_count > 0]_vars

\* the row of the graph a node appended under parent_id was built from
SourceRow(node) ==
    CHOOSE r \in Range(graph[node.parent_id]) : r.id = node.node_id

\* C26 as stated: the score stored for a node appended at depth d is the
\* weighted sum of its raw source weight and its query overlap multiplied by
\* decay_factor^d (for a query with at least one word)
C26_StoredScoreDecaysWithDepth ==
    \A p \in DOMAIN exploration_paths :
        \A i \in 1..Len(exploration_paths[p].nodes) :
            LET node == exploration_paths[p].nodes[i]
            IN (node.depth >= 1 /\ exploration_paths[p].query # <<>>)
               => node.relevance_score =
                     Score([node EXCEPT !.relevance_score = SourceRow(node).relevance],
                           exploration_paths[p].query)

\* C29 as stated: backtracking one path releases from the visited set no node
\* that another path still contains
C29_BacktrackKeepsOtherPathsNodes ==
    [][\A p \in DOMAIN exploration_paths, d \in TargetDepths :
          Backtrack(p, d)
          => \A q \in DOMAIN exploration_paths \ {p} :
                \A i \in 1..Len(exploration_paths[q].nodes) :
                    exploration_paths[q].nodes[i].node_id \in visited_nodes
                    => exploration_paths[q].nodes[i].node_id \in visited_nodes']_vars

\* C25 as stated: in what batch_search returned, every query whose search
\* had completed and was collected keeps its own results (queries submitted
\* once in the batch)
C25_CompletedQueryKeepsResults ==
    (bs_pc = "idle" /\ bs_via # "none")
    => \A i \in DOMAIN bs_workers :
          (/\ bs_workers[i].pc = "collected"
           /\ \A j \in DOMAIN bs_workers \ {i} : bs_workers[j].query # bs_workers[i].query)
          => /\ bs_workers[i].query \in DOMAIN bs_out
             /\ bs_out[bs_workers[i].query] = bs_workers[i].result

\* every search of the batch has an entry in search_history
BatchRecorded ==
    \A q \in BatchNames :
        Cardinality({k \in DOMAIN search_history : search_history[k] = q})
            >= Cardinality({i \in DOMAIN bs_workers : bs_workers[i].query = q})

\* C27 as stated: when a parallel batch of at most HistoryLimit searches
\* returns, search_history holds an entry for each of them; only older
\* entries can have left through the rolling bound
C27_BatchSearchesAllRecorded ==
    [][((BatchReturns \/ BatchTimeoutReturns) /\ Len(bs_workers) <= HistoryLimit)
       => BatchRecorded']_vars

\* C30 as stated: a get that follows a completed set of its key, with no
\* other completed call in between, returns the value that was set, or
\* nothing when the entry has expired, and never an older value; a get that
\* follows a completed delete of its key returns nothing
C30_NoStaleValueAfterSetOrDelete ==
    [][\A k \in CacheKeys :
          CacheGet(k)
          => /\ (ca_last.op = "set" /\ ca_last.ok /\ ca_last.key = k)
                   => ca_last'.value \in {ca_last.value, NoValue}
             /\ (ca_last.op = "delete" /\ ca_last.key = k)
                   => ca_last'.value = NoValue]_vars

====
